---------------------------- MODULE Spec2Model ----------------------------
(***************************************************************************)
(* A model of rust-proxy: the buffered connection (net/conn.rs), the       *)
(* forwarder (proxy/forward.rs), the acceptor (proxy/tcp.rs, main.rs) and  *)
(* the SOCKS5 / HTTP handlers (proxy/socks5.rs, proxy/http.rs).            *)
(*                                                                         *)
(* Three specifications share the module:                                  *)
(*   SpecBuf  one BufferedConnection driven by arbitrary calls             *)
(*   SpecAcc  the accept loop, its semaphore and the spawned tasks         *)
(*   Spec     one client connection: dispatch, handler, dial, forwarding   *)
(* Bytes are integers 0..255; a stream is a finite sequence of bytes that  *)
(* ends with EOF.                                                          *)
(***************************************************************************)
EXTENDS Integers, Sequences, FiniteSets, TLC

\* ------------------------------------------------------------------ bounds

\* longest byte stream fed to the connection of SpecBuf
MaxStream == 3
\* longest argument of unread / read_from_buffer / read_exact_bytes in SpecBuf
MaxArg == 2
\* size of the temp slab of one socket read (config.buffer_size, scaled down)
BufferSize == 3
\* permits of the semaphore (max_connections, scaled down)
MaxConnections == 2
\* connections that clients open during one run of SpecAcc
NumClients == 3
\* accept errors during one run of SpecAcc
MaxAcceptErrors == 1

\* ----------------------------------------------------------------- helpers

Min(a, b) == IF a < b THEN a ELSE b

Chunk(S, pos, n) == SubSeq(S, pos + 1, pos + n)

Drop(s, n) == SubSeq(s, n + 1, Len(s))

Take(s, n) == SubSeq(s, 1, n)

IsSuffix(t, s) == Len(t) <= Len(s) /\ SubSeq(s, Len(s) - Len(t) + 1, Len(s)) = t

SeqsUpTo(A, n) == UNION {[1..k -> A] : k \in 0..n}

\* ------------------------------------------------------------------- state

VARIABLES
    \* SpecBuf: one BufferedConnection and what its caller has seen
    bStream,    \* the bytes the peer sends on the connection, then EOF
    bConn,      \* the BufferedConnection
    bHanded,    \* bytes returned by consuming reads and not unread since
    bConsumed,  \* bytes removed from read_buffer and not unread since
    bSince,     \* how many of the last returned bytes may be pushed back
    bLast,      \* the last call: [op, n, ok, data, un]; un is the unread that
                \* came right before it (or is it): [was, arg, before, has],
                \* has being what has_data() returned after that unread
    \* SpecAcc: TcpProxy::run and the tasks it spawns
    aPc,        \* where run() is: "select", "sleep", "stopped" (run returned),
                \* "exited" (main returned, the runtime is dropped); "off"
    aPermits,   \* permits available in the semaphore
    aTask,      \* per incoming connection: "none", "pending" (in the listen
                \* backlog), "rejected", "running" (in handle_connection),
                \* "returned" (before drop(permit)), "done", "cancelled"
    aResult,    \* per connection: what handle_connection returned
    aSig,       \* SIGINT was delivered to the process
    aSigSeen,   \* the select! took its shutdown branch
    aErrs,      \* accept errors so far
    \* Spec: one client connection, from handle_connection to its return
    sUsers,     \* AuthManager.users: the configured users, passwords hashed
    sIn,        \* the bytes the client sends, then EOF
    sConn,      \* the client's BufferedConnection
    sOut,       \* the writes made to the client: a sequence of [phase, data]
    sPc,        \* where the handler is
    sProto,     \* the handler chosen by the dispatch: "none", "socks5", "http"
    sErr,       \* the error handle_connection returned, "" while none, "Ok"
    sMethod,    \* the SOCKS5 method selected (255: none)
    sAuthed,    \* auth_manager.authenticate returned Ok(true) on this connection
    sTarget,    \* the target address the handler will dial
    sDials,     \* the outbound connections opened so far: their targets
    tIn,        \* the bytes the target sends once connected, then EOF
    tConn,      \* the target's BufferedConnection
    tOut,       \* the writes made to the target, each with its phase
    fK,         \* the client bytes the negotiation had consumed when the
                \* forwarder started
    fEof,       \* the sides whose EOF the forwarder has read
    fIo,        \* the I/O error the forwarder has met: [side, op]
    hReq        \* the HttpRequest that parse_request returned

bvars == <<bStream, bConn, bHanded, bConsumed, bSince, bLast>>

avars == <<aPc, aPermits, aTask, aResult, aSig, aSigSeen, aErrs>>

svars == <<sUsers, sIn, sConn, sOut, sPc, sProto, sErr, sMethod, sAuthed, sTarget,
           sDials, tIn, tConn, tOut, fK, fEof, fIo, hReq>>

vars == <<bvars, avars, svars>>

\* -------------------------------------------------- net/conn.rs, operators
\* A connection value is [rb, pos]: rb is read_buffer, pos counts the bytes
\* the underlying TcpStream has handed to this wrapper so far.

\* BufferedConnection::new
new_conn == [rb |-> <<>>, pos |-> 0]

\* BufferedConnection::read: one stream.read into temp_buffer (buffer_size
\* bytes at most); the n > 0 bytes are appended to read_buffer; 0 at EOF.
\* The set of outcomes [conn, n] of one call on stream S.
read(c, S) ==
    IF c.pos = Len(S)
      THEN {[conn |-> c, n |-> 0]}
      ELSE {[conn |-> [rb |-> c.rb \o Chunk(S, c.pos, n), pos |-> c.pos + n],
             n |-> n] : n \in 1..Min(BufferSize, Len(S) - c.pos)}

\* a plausible slip: the adapter hands every poll to the stream
poll_read_Through(c, S, remaining) ==
    {[conn |-> c, ready |-> FALSE, data |-> <<>>]}
      \cup {[conn |-> [c EXCEPT !.pos = c.pos + n], ready |-> TRUE,
             data |-> Chunk(S, c.pos, n)]
            : n \in IF remaining = 0 \/ c.pos = Len(S) THEN {0}
                    ELSE 1..Min(remaining, Len(S) - c.pos)}

\* AsyncRead::poll_read on a ReadBuf with `remaining` bytes of room: the
\* outcomes [conn, ready, data], data being what was put into the ReadBuf.
\* With bytes buffered, min(len, remaining) of them are moved from the front
\* and the poll is Ready; otherwise the poll is the stream's: Pending, or
\* Ready with bytes that bypass read_buffer, none at EOF.
poll_read(c, S, remaining) ==
    IF c.rb # <<>>
      THEN LET to_copy == Min(Len(c.rb), remaining)
           IN  {[conn |-> [c EXCEPT !.rb = Drop(c.rb, to_copy)], ready |-> TRUE,
                 data |-> Take(c.rb, to_copy)]}
      ELSE {[conn |-> c, ready |-> FALSE, data |-> <<>>]}
             \cup {[conn |-> [c EXCEPT !.pos = c.pos + n], ready |-> TRUE,
                    data |-> Chunk(S, c.pos, n)]
                   : n \in IF remaining = 0 \/ c.pos = Len(S) THEN {0}
                           ELSE 1..Min(remaining, Len(S) - c.pos)}

\* a plausible slip: the drain is forgotten
read_from_buffer_NoDrain(rb, len) ==
    IF Len(rb) >= len
      THEN [some |-> TRUE, data |-> Take(rb, len), rb |-> rb]
      ELSE [some |-> FALSE, data |-> <<>>, rb |-> rb]

\* a plausible slip: the bytes handed out are the newest, from the back
read_from_buffer_Newest(rb, len) ==
    IF Len(rb) >= len
      THEN [some |-> TRUE, data |-> Drop(rb, Len(rb) - len),
            rb |-> Take(rb, Len(rb) - len)]
      ELSE [some |-> FALSE, data |-> <<>>, rb |-> rb]

\* BufferedConnection::read_from_buffer
read_from_buffer(rb, len) ==
    IF Len(rb) >= len
      THEN [some |-> TRUE, data |-> Take(rb, len), rb |-> Drop(rb, len)]
      ELSE [some |-> FALSE, data |-> <<>>, rb |-> rb]

\* a plausible slip: the pushed-back bytes land behind the buffered ones
unread_Append(rb, data) == rb \o data

\* BufferedConnection::unread
unread(rb, data) == data \o rb

\* BufferedConnection::has_data
has_data(rb) == rb # <<>>

\* BufferedConnection::buffer_len
buffer_len(rb) == Len(rb)

\* a plausible slip: one read is taken to be enough
ensure_bytes_Once(c, S, n) ==
    IF ~(Len(c.rb) < n)
      THEN {[conn |-> c, ok |-> TRUE]}
      ELSE {[conn |-> r.conn, ok |-> r.n # 0] : r \in read(c, S)}

\* BufferedConnection::ensure_bytes: read until n bytes are buffered; the set
\* of outcomes [conn, ok].
RECURSIVE ensure_bytes(_, _, _)
ensure_bytes(c, S, n) ==
    IF ~(Len(c.rb) < n)
      THEN {[conn |-> c, ok |-> TRUE]}
      ELSE UNION {IF r.n = 0
                    THEN {[conn |-> r.conn, ok |-> FALSE]}
                    ELSE ensure_bytes(r.conn, S, n) : r \in read(c, S)}

\* BufferedConnection::read_exact_bytes: outcomes [conn, ok, err, data]
read_exact_bytes(c, S, n) ==
    {IF ~e.ok
       THEN [conn |-> e.conn, ok |-> FALSE, err |-> "UnexpectedEof", data |-> <<>>]
       ELSE LET r == read_from_buffer(e.conn.rb, n)
            IN  IF r.some
                  THEN [conn |-> [e.conn EXCEPT !.rb = r.rb], ok |-> TRUE,
                        err |-> "", data |-> r.data]
                  ELSE [conn |-> e.conn, ok |-> FALSE, err |-> "UnexpectedEof",
                        data |-> <<>>]
     : e \in ensure_bytes(c, S, n)}

\* a plausible slip: the last terminator buffered is taken for the line's end
CrlfPosition_Last(rb) ==
    LET hits == {i \in 1..(Len(rb) - 1) : rb[i] = 13 /\ rb[i + 1] = 10}
    IN  IF hits = {} THEN -1
        ELSE (CHOOSE i \in hits : \A j \in hits : i >= j) - 1

\* read_buffer.windows(2).position(|w| w == b"\r\n"): 0-based, -1 for None
CrlfPosition(rb) ==
    LET hits == {i \in 1..(Len(rb) - 1) : rb[i] = 13 /\ rb[i + 1] = 10}
    IN  IF hits = {} THEN -1
        ELSE (CHOOSE i \in hits : \A j \in hits : i <= j) - 1

\* String::from_utf8 succeeds. The streams of this model hold ASCII bytes and
\* 0xFF only: ASCII is always valid, 0xFF never is.
IsUtf8(s) == \A i \in 1..Len(s) : s[i] < 128

\* BufferedConnection::read_line: outcomes [conn, ok, err, data]; data is the
\* line without its terminator.
RECURSIVE read_line(_, _)
read_line(c, S) ==
    LET p == CrlfPosition(c.rb)
    IN  IF p >= 0
          THEN IF IsUtf8(Take(c.rb, p))
                 THEN {[conn |-> [c EXCEPT !.rb = Drop(c.rb, p + 2)], ok |-> TRUE,
                        err |-> "", data |-> Take(c.rb, p)]}
                 ELSE {[conn |-> c, ok |-> FALSE, err |-> "InvalidData",
                        data |-> <<>>]}
          ELSE UNION {IF r.n = 0
                        THEN {[conn |-> r.conn, ok |-> FALSE,
                               err |-> "UnexpectedEof", data |-> <<>>]}
                        ELSE read_line(r.conn, S) : r \in read(c, S)}

\* ----------------------------------------------------- SpecBuf: actions

\* the bytes of SpecBuf's streams and pushed-back data: LF, CR and 'A'
BufBytes == {10, 13, 65}

\* the streams of SpecBuf: every sequence of BufBytes up to MaxStream, and a
\* line that is not UTF-8
BufStreams == SeqsUpTo(BufBytes, MaxStream) \cup {<<255, 13, 10>>}

NoUnread == [was |-> FALSE, arg |-> <<>>, before |-> <<>>, has |-> FALSE]

\* the unread right before the call being made, if any
UnreadBefore == IF bLast.op = "unread" THEN bLast.un ELSE NoUnread

BufInit ==
    /\ bStream \in BufStreams
    /\ bConn = new_conn
    /\ bHanded = <<>>
    /\ bConsumed = <<>>
    /\ bSince = 0
    /\ bLast = [op |-> "none", n |-> 0, ok |-> TRUE, data |-> <<>>,
                un |-> NoUnread]

\* conn.read()
BufRead ==
    \E r \in read(bConn, bStream) :
        /\ bConn' = r.conn
        /\ bLast' = [op |-> "read", n |-> r.n, ok |-> TRUE, data |-> <<>>,
                     un |-> NoUnread]
        /\ UNCHANGED <<bStream, bHanded, bConsumed, bSince>>
        /\ UNCHANGED <<avars, svars>>

\* conn.read_from_buffer(len)
BufReadFromBuffer ==
    \E len \in 0..MaxArg :
        LET r == read_from_buffer(bConn.rb, len)
        IN  /\ bConn' = [bConn EXCEPT !.rb = r.rb]
            /\ bHanded' = bHanded \o r.data
            /\ bConsumed' = bConsumed \o r.data
            /\ bSince' = bSince + Len(r.data)
            /\ bLast' = [op |-> "read_from_buffer", n |-> len, ok |-> r.some,
                         data |-> r.data, un |-> UnreadBefore]
            /\ UNCHANGED bStream
        /\ UNCHANGED <<avars, svars>>
            /\ UNCHANGED <<avars, svars>>

\* conn.read_exact_bytes(n)
BufReadExact ==
    \E n \in 0..(MaxArg + 1) :
        \E r \in read_exact_bytes(bConn, bStream, n) :
            /\ bConn' = r.conn
            /\ bHanded' = bHanded \o r.data
            /\ bConsumed' = bConsumed \o r.data
            /\ bSince' = bSince + Len(r.data)
            /\ bLast' = [op |-> "read_exact_bytes", n |-> n, ok |-> r.ok,
                         data |-> r.data, un |-> UnreadBefore]
            /\ UNCHANGED bStream
        /\ UNCHANGED <<avars, svars>>
            /\ UNCHANGED <<avars, svars>>

\* conn.read_line(): a returned line leaves the buffer with its terminator
BufReadLine ==
    \E r \in read_line(bConn, bStream) :
        /\ bConn' = r.conn
        /\ bHanded' = bHanded \o r.data
        /\ bConsumed' = IF r.ok THEN bConsumed \o r.data \o <<13, 10>>
                        ELSE bConsumed
        /\ bSince' = IF r.ok THEN 0 ELSE bSince
        /\ bLast' = [op |-> "read_line", n |-> 0, ok |-> r.ok, data |-> r.data,
                     un |-> NoUnread]
        /\ UNCHANGED bStream
        /\ UNCHANGED <<avars, svars>>

\* conn.unread(data) of bytes returned last, as tcp.rs does after its peek
BufUnread ==
    \E k \in 1..Min(bSince, MaxArg) :
        LET data == SubSeq(bHanded, Len(bHanded) - k + 1, Len(bHanded))
            rb2  == unread(bConn.rb, data)
        IN  /\ bConn' = [bConn EXCEPT !.rb = rb2]
            /\ bHanded' = Take(bHanded, Len(bHanded) - k)
            /\ bConsumed' = Take(bConsumed, Len(bConsumed) - k)
            /\ bSince' = bSince - k
            /\ bLast' = [op |-> "unread", n |-> k, ok |-> TRUE, data |-> <<>>,
                         un |-> [was |-> TRUE, arg |-> data,
                                 before |-> bConn.rb, has |-> has_data(rb2)]]
            /\ UNCHANGED bStream
        /\ UNCHANGED <<avars, svars>>
            /\ UNCHANGED <<avars, svars>>

\* conn.unread(b) of any bytes b, then conn.read_from_buffer(b.len()): the
\* two calls of a push-back and its re-read, made back to back
BufUnreadThenRead ==
    \E b \in SeqsUpTo(BufBytes, MaxArg) :
        LET rb2 == unread(bConn.rb, b)
            r   == read_from_buffer(rb2, Len(b))
        IN  /\ bConn' = [bConn EXCEPT !.rb = r.rb]
            /\ bLast' = [op |-> "read_from_buffer", n |-> Len(b), ok |-> r.some,
                         data |-> r.data,
                         un |-> [was |-> TRUE, arg |-> b, before |-> bConn.rb,
                                 has |-> has_data(rb2)]]
            /\ UNCHANGED <<bStream, bHanded, bConsumed, bSince>>
            /\ UNCHANGED <<avars, svars>>

\* conn.poll_read(cx, buf) with buf.remaining() = remaining, as a reader of
\* tokio::io makes it; ok records Poll::Ready
BufPollRead ==
    \E remaining \in 0..MaxArg :
        \E r \in poll_read(bConn, bStream, remaining) :
            /\ bConn' = r.conn
            /\ bHanded' = bHanded \o r.data
            /\ bConsumed' = bConsumed \o r.data
            /\ bSince' = bSince + Len(r.data)
            /\ bLast' = [op |-> "poll_read", n |-> remaining, ok |-> r.ready,
                         data |-> r.data, un |-> NoUnread]
            /\ UNCHANGED bStream
            /\ UNCHANGED <<avars, svars>>

BufNext ==
    \/ BufRead
    \/ BufReadFromBuffer
    \/ BufReadExact
    \/ BufReadLine
    \/ BufUnread
    \/ BufUnreadThenRead
    \/ BufPollRead

\* ------------------------------------------------------ SpecBuf: claims

\* the bytes the connection has received from its stream so far
Received == Take(bStream, bConn.pos)

C5_UnreadRoundTrip ==
    /\ (bLast.un.was /\ bLast.un.arg # <<>>) => bLast.un.has
    /\ ( /\ bLast.un.was
         /\ bLast.op \in {"read_from_buffer", "read_exact_bytes"}
         /\ bLast.n = Len(bLast.un.arg) )
       => /\ bLast.ok
          /\ bLast.data = bLast.un.arg
          /\ bConn.rb = bLast.un.before
    /\ ( /\ bLast.un.was
         /\ bLast.op = "read_exact_bytes"
         /\ bLast.ok
         /\ bLast.n = 3
         /\ Len(bLast.un.arg) = 1
         /\ bHanded = bLast.data )
       => bLast.data = Take(bStream, 3)

\* bytes that were never returned are pushed onto a non-empty buffer and read
\* back
C5_Witness ==
    /\ bLast.un.was
    /\ bLast.op = "read_from_buffer"
    /\ Len(bLast.un.arg) = 2
    /\ bLast.un.before # <<>>
    /\ ~IsSuffix(bLast.un.arg, bConsumed)
    /\ bLast.data = bLast.un.arg

\* the scenario of tests::test_unread: one byte read, pushed back, three read
C5_TestUnreadReached ==
    /\ bLast.un.was
    /\ bLast.op = "read_exact_bytes"
    /\ bLast.ok
    /\ bLast.n = 3
    /\ Len(bLast.un.arg) = 1
    /\ bHanded = bLast.data

\* C29: a poll_read made while read_buffer holds bytes is Ready with the
\* first min(len(read_buffer), remaining) of them, removes them from the
\* front of read_buffer and takes nothing from the stream; bytes are taken
\* from the stream only by a poll made with read_buffer empty.
C29_PollReadDrainsFirst ==
    [][ bLast'.op = "poll_read" =>
          /\ bConn.rb # <<>> =>
                LET to_copy == Min(Len(bConn.rb), bLast'.n)
                IN  /\ bLast'.ok
                    /\ bLast'.data = Take(bConn.rb, to_copy)
                    /\ bConn'.rb = Drop(bConn.rb, to_copy)
                    /\ bConn'.pos = bConn.pos
          /\ bConn'.pos # bConn.pos => bConn.rb = <<>> ]_vars

\* C29's case: a poll_read with less room than read_buffer held has
\* returned bytes and left the rest buffered
C29_Witness ==
    /\ bLast.op = "poll_read"
    /\ bLast.data # <<>>
    /\ Len(bLast.data) = bLast.n
    /\ bConn.rb # <<>>

\* k calls of read_line one after the other: the sequences of their results
RECURSIVE read_lines(_, _, _)
read_lines(c, S, k) ==
    IF k = 0 THEN {<<>>}
    ELSE UNION {{<<[ok |-> r.ok, err |-> r.err, data |-> r.data]>> \o rest
                 : rest \in read_lines(r.conn, S, k - 1)}
                : r \in read_line(c, S)}

Line(data) == [ok |-> TRUE, err |-> "", data |-> data]

NoLine == [ok |-> FALSE, err |-> "UnexpectedEof", data |-> <<>>]

\* "A\r\nBB\r\n\r\n" read line by line, then once more; a stream that ends
\* inside a terminator; and a line with a lone LF and a lone CR in it: each
\* under every way the bytes can be split across the reads
LineSequences ==
    /\ read_lines(new_conn, <<65, 13, 10, 66, 66, 13, 10, 13, 10>>, 4)
         = {<<Line(<<65>>), Line(<<66, 66>>), Line(<<>>), NoLine>>}
    /\ read_lines(new_conn, <<65, 13>>, 1) = {<<NoLine>>}
    /\ read_lines(new_conn, <<65, 10, 13, 66, 13, 10, 65>>, 2)
         = {<<Line(<<65, 10, 13, 66>>), NoLine>>}

\* the bytes of the stream that no call has consumed: the buffer, then what
\* the connection has not read yet
Unconsumed(c, S) == c.rb \o Drop(S, c.pos)

\* C34: a read_line returns the bytes before the first \r\n among the bytes
\* not yet consumed, however they are split between the buffer and later
\* reads, and removes them and the two terminator bytes and nothing else;
\* with no \r\n before the end of the stream it fails, having consumed
\* nothing; a line that is not UTF-8 fails and stays. Successive calls on
\* "A\r\nBB\r\n\r\n" return "A", "BB", "" and then fail at the end of the
\* stream.
C34_ReadLineFraming ==
    [][ bLast'.op = "read_line" =>
          /\ LineSequences
          /\ LET avail == Unconsumed(bConn, bStream)
                 left  == Unconsumed(bConn', bStream)
                 ends  == {i \in 1..(Len(avail) - 1) :
                            avail[i] = 13 /\ avail[i + 1] = 10}
                 first == CHOOSE i \in ends : \A j \in ends : i <= j
             IN  IF ends # {} /\ IsUtf8(Take(avail, first - 1))
                   THEN /\ bLast'.ok
                        /\ bLast'.data = Take(avail, first - 1)
                        /\ left = Drop(avail, first + 1)
                   ELSE /\ ~bLast'.ok
                        /\ bLast'.data = <<>>
                        /\ left = avail
                        /\ ends = {} => (bConn'.pos = Len(bStream)
                                         /\ bConn'.rb = avail) ]_vars

\* C34's case: the stream started with \r\n, read_line returned the empty
\* line and left the byte after the terminator buffered
C34_Witness ==
    /\ bLast.op = "read_line"
    /\ bLast.ok
    /\ bLast.data = <<>>
    /\ bHanded = <<>>
    /\ bConsumed = <<13, 10>>
    /\ bConn.rb # <<>>

\* C35: read_exact_bytes(n) returns the next n bytes not yet consumed when
\* the buffer and the rest of the stream hold that many, however the reads
\* split them, and consumes nothing else; when they hold fewer it fails,
\* having consumed nothing, with every byte of the stream in read_buffer.
C35_ReadExact ==
    [][ bLast'.op = "read_exact_bytes" =>
          LET avail == Unconsumed(bConn, bStream)
              left  == Unconsumed(bConn', bStream)
          IN  IF Len(avail) >= bLast'.n
                THEN /\ bLast'.ok
                     /\ bLast'.data = Take(avail, bLast'.n)
                     /\ left = Drop(avail, bLast'.n)
                     /\ bConn'.rb = Chunk(avail, bLast'.n,
                                          Len(bConn'.rb))
                ELSE /\ ~bLast'.ok
                     /\ bLast'.data = <<>>
                     /\ bConn'.pos = Len(bStream)
                     /\ bConn'.rb = avail ]_vars

\* C35's case: the stream ended with two bytes, fewer than asked for, and
\* the bytes received are still buffered
C35_Witness ==
    /\ bLast.op = "read_exact_bytes"
    /\ ~bLast.ok
    /\ bHanded = <<>>
    /\ Len(bConn.rb) = 2
    /\ bConn.rb = bStream

\* ----------------------------------------------------- SpecAcc: actions

Clients == 1..NumClients

\* handle_connection's results in SpecAcc: Ok(()) or Err(TcpProxyError)
HandlerResults == {"Ok", "Err"}

\* TcpProxy::new: the semaphore holds max_connections permits
AccInit ==
    /\ aPc = "select"
    /\ aPermits = MaxConnections
    /\ aTask = [c \in Clients |-> "none"]
    /\ aResult = [c \in Clients |-> "none"]
    /\ aSig = FALSE
    /\ aSigSeen = FALSE
    /\ aErrs = 0

\* SpecBuf and Spec leave the acceptor out
AccOff ==
    /\ aPc = "off"
    /\ aPermits = 0
    /\ aTask = <<>>
    /\ aResult = <<>>
    /\ aSig = FALSE
    /\ aSigSeen = FALSE
    /\ aErrs = 0

BufOff ==
    /\ bStream = <<>>
    /\ bConn = new_conn
    /\ bHanded = <<>>
    /\ bConsumed = <<>>
    /\ bSince = 0
    /\ bLast = [op |-> "none", n |-> 0, ok |-> TRUE, data |-> <<>>,
                un |-> NoUnread]

\* a plausible slip: the task is spawned whether or not a permit is left
try_acquire_NoLimit(permits) == [ok |-> TRUE, permits |-> permits - 1]

\* a plausible slip: without a free permit the connection is admitted all the
\* same, on a permit that is not there
try_acquire_Borrow(permits) ==
    IF permits > 0 THEN [ok |-> TRUE, permits |-> permits - 1]
    ELSE [ok |-> TRUE, permits |-> permits]

\* self.semaphore.clone().try_acquire_owned(): never waits
try_acquire(permits) ==
    IF permits > 0 THEN [ok |-> TRUE, permits |-> permits - 1]
    ELSE [ok |-> FALSE, permits |-> permits]

\* a plausible slip: the shutdown branch logs and the loop goes on
shutdown_branch_Continue == "select"

\* the select! branch `_ = &mut shutdown`: break, and run() returns
shutdown_branch == "stopped"

\* a client connects: the connection waits in the listen backlog
ClientConnect(c) ==
    /\ aPc # "exited"
    /\ aTask[c] = "none"
    /\ aTask' = [aTask EXCEPT ![c] = "pending"]
    /\ UNCHANGED <<aPc, aPermits, aResult, aSig, aSigSeen, aErrs>>
    /\ UNCHANGED <<bvars, svars>>

\* listener.accept() returns Ok((stream, addr)): a permit is taken and the
\* task spawned, or the stream is dropped
AcceptOk(c) ==
    /\ aPc = "select"
    /\ aTask[c] = "pending"
    /\ LET p == try_acquire(aPermits)
       IN  /\ aPermits' = p.permits
           /\ aTask' = [aTask EXCEPT ![c] = IF p.ok THEN "running"
                                            ELSE "rejected"]
    /\ UNCHANGED <<aPc, aResult, aSig, aSigSeen, aErrs>>
    /\ UNCHANGED <<bvars, svars>>

\* a plausible slip: an accept error ends the loop
AcceptErr_Stop ==
    /\ aPc = "select"
    /\ aErrs < MaxAcceptErrors
    /\ aErrs' = aErrs + 1
    /\ aPc' = "stopped"
    /\ UNCHANGED <<aPermits, aTask, aResult, aSig, aSigSeen>>
    /\ UNCHANGED <<bvars, svars>>

\* listener.accept() returns Err: logged, then sleep(100 ms)
AcceptErr ==
    /\ aPc = "select"
    /\ aErrs < MaxAcceptErrors
    /\ aErrs' = aErrs + 1
    /\ aPc' = "sleep"
    /\ UNCHANGED <<aPermits, aTask, aResult, aSig, aSigSeen>>
    /\ UNCHANGED <<bvars, svars>>

\* the sleep is over: the loop selects again
SleepDone ==
    /\ aPc = "sleep"
    /\ aPc' = "select"
    /\ UNCHANGED <<aPermits, aTask, aResult, aSig, aSigSeen, aErrs>>
    /\ UNCHANGED <<bvars, svars>>

\* Ctrl-C
Sigint ==
    /\ aPc \in {"select", "sleep"}
    /\ ~aSig
    /\ aSig' = TRUE
    /\ UNCHANGED <<aPc, aPermits, aTask, aResult, aSigSeen, aErrs>>
    /\ UNCHANGED <<bvars, svars>>

\* the select! takes `_ = &mut shutdown`
Shutdown ==
    /\ aPc = "select"
    /\ aSig
    /\ aSigSeen' = TRUE
    /\ aPc' = shutdown_branch
    /\ UNCHANGED <<aPermits, aTask, aResult, aSig, aErrs>>
    /\ UNCHANGED <<bvars, svars>>

\* Self::handle_connection(..).await returns in the task of connection c
HandlerReturn(c) ==
    /\ aPc # "exited"
    /\ aTask[c] = "running"
    /\ \E r \in HandlerResults : aResult' = [aResult EXCEPT ![c] = r]
    /\ aTask' = [aTask EXCEPT ![c] = "returned"]
    /\ UNCHANGED <<aPc, aPermits, aSig, aSigSeen, aErrs>>
    /\ UNCHANGED <<bvars, svars>>

\* a plausible slip: the permit is given back only when the handler returned
\* Ok
DropPermit_OnlyOk(c) ==
    /\ aPc # "exited"
    /\ aTask[c] = "returned"
    /\ aTask' = [aTask EXCEPT ![c] = "done"]
    /\ aPermits' = IF aResult[c] = "Ok" THEN aPermits + 1 ELSE aPermits
    /\ UNCHANGED <<aPc, aResult, aSig, aSigSeen, aErrs>>
    /\ UNCHANGED <<bvars, svars>>

\* the task logs an Err and ends with drop(permit)
DropPermit(c) ==
    /\ aPc # "exited"
    /\ aTask[c] = "returned"
    /\ aTask' = [aTask EXCEPT ![c] = "done"]
    /\ aPermits' = aPermits + 1
    /\ UNCHANGED <<aPc, aResult, aSig, aSigSeen, aErrs>>
    /\ UNCHANGED <<bvars, svars>>

\* main: rt.block_on(proxy.run(listener)) returns and main ends, dropping the
\* Runtime: a task waiting in handle_connection is dropped where it waits, a
\* task past it finishes its poll; their permits go with them
RuntimeDrop ==
    /\ aPc = "stopped"
    /\ aPc' = "exited"
    /\ aTask' = [c \in Clients |->
                    CASE aTask[c] = "running" -> "cancelled"
                      [] aTask[c] = "returned" -> "done"
                      [] OTHER -> aTask[c]]
    /\ aPermits' = aPermits
                   + Cardinality({c \in Clients :
                                     aTask[c] \in {"running", "returned"}})
    /\ UNCHANGED <<aResult, aSig, aSigSeen, aErrs>>
    /\ UNCHANGED <<bvars, svars>>

AccNext ==
    \/ \E c \in Clients : ClientConnect(c)
    \/ \E c \in Clients : AcceptOk(c)
    \/ AcceptErr
    \/ SleepDone
    \/ Sigint
    \/ Shutdown
    \/ \E c \in Clients : HandlerReturn(c)
    \/ \E c \in Clients : DropPermit(c)
    \/ RuntimeDrop

\* ------------------------------------------------------ SpecAcc: claims

\* the handler tasks that are alive: spawned and not yet finished
LiveTasks == {c \in Clients : aTask[c] \in {"running", "returned"}}

\* C2: at any instant the number of live handler tasks is at most
\* max_connections.
C2_ConcurrencyBound == Cardinality(LiveTasks) <= MaxConnections

\* every permit is held by a live task while another connection waits in the
\* backlog
C2_Witness ==
    /\ Cardinality(LiveTasks) = MaxConnections
    /\ \E c \in Clients : aTask[c] = "pending"

\* C9: after the shutdown signal, every handler task that was running goes on
\* to its own completion; none is cancelled, the teardown of the runtime when
\* run() returns included.
C9_InFlightSurvive == \A c \in Clients : aTask[c] # "cancelled"

\* C10: once the accept loop has observed the shutdown signal, no connection
\* is accepted and no handler task is spawned, whatever waits in the backlog
\* and however many permits are free.
C10_ShutdownStopsAccepting ==
    [][aSigSeen =>
         \A c \in Clients :
             aTask[c] \in {"none", "pending"}
                 => aTask'[c] \in {"none", "pending"}]_vars

\* the loop has stopped with a connection in the backlog and a free permit
C10_Witness ==
    /\ aSigSeen
    /\ aPermits > 0
    /\ \E c \in Clients : aTask[c] = "pending"

\* C11: a connection accepted while no permit is free is dropped at once: no
\* handler is spawned for it then or later, the loop does not wait and goes on
\* selecting, and no permit changes hands; with a permit free it is spawned.
C11_OverloadDropped ==
    [][\A c \in Clients :
         /\ (aTask[c] = "pending" /\ aTask'[c] # "pending")
              => IF aPermits = 0
                   THEN /\ aTask'[c] = "rejected"
                        /\ aPermits' = 0
                        /\ aPc' = "select"
                   ELSE aTask'[c] = "running"
         /\ aTask[c] = "rejected" => aTask'[c] = "rejected"]_vars

\* a connection was dropped, a permit came free afterwards and the loop took
\* another connection
C11_Witness ==
    /\ \E c \in Clients : aTask[c] = "rejected"
    /\ \E c \in Clients : aTask[c] = "done"
    /\ aPermits > 0
    /\ aPc = "select"

\* C12: the free permits and the live handler tasks always add up to
\* max_connections: a task takes one permit when it is spawned and gives it
\* back once when it ends, after Ok and after Err alike.
C12_PermitConservation ==
    aPc # "off" => aPermits + Cardinality(LiveTasks) = MaxConnections

\* every permit was taken, a handler that returned Err has ended, and a
\* later connection runs on the permit it gave back
C12_Witness ==
    /\ \E c \in Clients : aTask[c] = "done" /\ aResult[c] = "Err"
    /\ Cardinality(LiveTasks) = MaxConnections
    /\ aPermits = 0

\* C37: the return of a handler, with Err as with Ok, changes the state of
\* its own task only: the loop stays where it is and every other connection
\* keeps its state and result; so does the end of a task, which besides
\* gives one permit back. An accept error takes the loop to its sleep and
\* nowhere else, with every task and permit as it was, the sleep ends in the
\* select again, and the loop stops for the shutdown signal alone.
C37_ErrorIsolation ==
    [][ /\ \A c \in Clients :
             (aTask[c] \in {"running", "returned"} /\ aTask'[c] # aTask[c]
              /\ aPc' # "exited")
               => /\ aPc' = aPc
                  /\ aErrs' = aErrs
                  /\ \A d \in Clients \ {c} :
                       aTask'[d] = aTask[d] /\ aResult'[d] = aResult[d]
                  /\ aPermits' = IF aTask[c] = "returned" THEN aPermits + 1
                                 ELSE aPermits
        /\ aErrs' # aErrs =>
             /\ aPc = "select" /\ aPc' = "sleep"
             /\ aTask' = aTask /\ aResult' = aResult /\ aPermits' = aPermits
        /\ aPc = "sleep" => aPc' \in {"sleep", "select"}
        /\ (aPc # "stopped" /\ aPc' = "stopped") => (aSig /\ aPc = "select")
      ]_vars

\* C37's case: a handler has returned Err and its task has ended, the accept
\* failed once, and the loop is selecting again with another handler running
\* and a connection waiting
C37_Witness ==
    /\ aPc = "select"
    /\ aErrs > 0
    /\ \E c \in Clients : aTask[c] = "done" /\ aResult[c] = "Err"
    /\ \E c \in Clients : aTask[c] = "running"
    /\ \E c \in Clients : aTask[c] = "pending"

\* ------------------------------------------- common/auth.rs, operators

\* bcrypt::hash, as far as verify can tell: the hash determines the password
hash_password(password) == <<"bcrypt", password>>

\* a verify that accepts every password
verify_Any(password, hashed) == TRUE

\* bcrypt::verify
verify(password, hashed) == hashed = hash_password(password)

\* AuthManager::new: every configured password is stored hashed
AuthManager_new(users) ==
    {[user |-> e.user, hash |-> hash_password(e.pass)] : e \in users}

\* AuthManager::has_users
has_users(users) == users # {}

\* AuthManager::authenticate: Ok(true), or Err(AuthenticationFailed) for an
\* unknown user and for a wrong password; never Ok(false)
authenticate(users, username, password) ==
    IF \E e \in users : e.user = username
      THEN LET e == CHOOSE x \in users : x.user = username
           IN  IF verify(password, e.hash) THEN "true"
               ELSE "AuthenticationFailed"
      ELSE "AuthenticationFailed"

\* the configurations of Spec: no users, or the user "u" with password "p"
UserConfigs == {{}, {[user |-> <<117>>, pass |-> <<112>>]}}

\* ----------------------------------------- calls on BufferedConnection that
\* proxy/socks5.rs, proxy/http.rs and proxy/forward.rs make and net/conn.rs
\* does not define

\* conn.available_bytes(): the bytes buffered, as buffer_len
available_bytes(rb) == buffer_len(rb)

\* conn.write_to_buffer(data): data is queued for the stream
write_to_buffer(wb, data) == wb \o data

\* conn.flush(): everything queued is written to the stream
flush(out, wb) == out \o wb

\* ------------------------------------------------- proxy/socks5.rs, operators

\* `while conn.available_bytes() < n { if conn.read().await? == 0 { return
\* Err(ConnectionClosed) } }`: the outcomes [conn, ok] of the loop. It reads
\* only while fewer than n bytes are buffered, so it stops with the stream
\* position between the first that suffices and BufferSize - 1 beyond it; at
\* EOF before that, everything sent is buffered.
await_bytes(c, S, n) ==
    IF ~(available_bytes(c.rb) < n)
      THEN {[conn |-> c, ok |-> TRUE]}
      ELSE LET need == c.pos + (n - Len(c.rb))
           IN  IF need > Len(S)
                 THEN {[conn |-> [rb |-> c.rb \o Chunk(S, c.pos, Len(S) - c.pos),
                                  pos |-> Len(S)],
                        ok |-> FALSE]}
                 ELSE {[conn |-> [rb |-> c.rb \o Chunk(S, c.pos, q - c.pos),
                                  pos |-> q],
                        ok |-> TRUE]
                       : q \in need..Min(need + BufferSize - 1, Len(S))}

\* an outcome of a handler step that fails with err
Failed(c, err, w) ==
    [conn |-> c, ok |-> FALSE, err |-> err, writes |-> w, val |-> <<>>]

\* an outcome of a handler step that succeeds with value val
Passed(c, w, val) ==
    [conn |-> c, ok |-> TRUE, err |-> "", writes |-> w, val |-> val]

\* c with its first n buffered bytes consumed by read_from_buffer(n)
Consume(c, n) == [c EXCEPT !.rb = read_from_buffer(c.rb, n).rb]

\* methods.contains(&m)
Contains(methods, m) == \E i \in 1..Len(methods) : methods[i] = m

\* a plausible slip: no-auth is taken whenever it is offered
select_method_PreferNoAuth(methods, users) ==
    IF Contains(methods, 0) THEN 0
    ELSE IF Contains(methods, 2) /\ has_users(users) THEN 2
    ELSE 255

\* a plausible slip: the users are not looked at, no-auth first
select_method_IgnoreUsers(methods, users) ==
    IF Contains(methods, 0) THEN 0
    ELSE IF Contains(methods, 2) THEN 2
    ELSE 255

\* Socks5Proxy::handshake, the choice of selected_method
select_method(methods, users) ==
    IF Contains(methods, 0) /\ ~has_users(users) THEN 0
    ELSE IF Contains(methods, 2) /\ has_users(users) THEN 2
    ELSE 255

\* Socks5Proxy::handshake: val is the selected method
handshake(c, S, users) ==
    UNION {
      IF ~a.ok THEN {Failed(a.conn, "ConnectionClosed", <<>>)}
      ELSE
        LET version  == read_from_buffer(a.conn.rb, 1).data[1]
            nmethods == read_from_buffer(Drop(a.conn.rb, 1), 1).data[1]
            c2       == Consume(a.conn, 2)
        IN  IF version # 5 THEN {Failed(c2, "InvalidVersion", <<>>)}
            ELSE
              {IF ~b.ok THEN Failed(b.conn, "ConnectionClosed", <<>>)
               ELSE
                 LET methods  == read_from_buffer(b.conn.rb, nmethods).data
                     selected == select_method(methods, users)
                     c3       == Consume(b.conn, nmethods)
                 IN  IF selected = 255
                       THEN Failed(c3, "NoSupportedAuthMethod", << <<5, selected>> >>)
                       ELSE Passed(c3, << <<5, selected>> >>, selected)
               : b \in await_bytes(c2, S, nmethods)}
      : a \in await_bytes(c, S, 2)}

\* Socks5Proxy::authenticate, from the username length on
authenticate_fields(c, S, users) ==
    UNION {
      IF ~a.ok THEN {Failed(a.conn, "ConnectionClosed", <<>>)}
      ELSE
        LET username_len == a.conn.rb[1]
            c2           == Consume(a.conn, 1)
        IN  UNION {
              IF ~b.ok THEN {Failed(b.conn, "ConnectionClosed", <<>>)}
              ELSE
                LET username == Take(b.conn.rb, username_len)
                    c3       == Consume(b.conn, username_len)
                IN  IF ~IsUtf8(username) THEN {Failed(c3, "InvalidUtf8", <<>>)}
                    ELSE UNION {
                      IF ~d.ok THEN {Failed(d.conn, "ConnectionClosed", <<>>)}
                      ELSE
                        LET password_len == d.conn.rb[1]
                            c4           == Consume(d.conn, 1)
                        IN  {IF ~e.ok THEN Failed(e.conn, "ConnectionClosed", <<>>)
                             ELSE
                               LET password == Take(e.conn.rb, password_len)
                                   c5       == Consume(e.conn, password_len)
                               IN  IF ~IsUtf8(password)
                                     THEN Failed(c5, "InvalidUtf8", <<>>)
                                   ELSE IF authenticate(users, username, password)
                                             # "true"
                                     THEN Failed(c5, "AuthenticationFailed", <<>>)
                                   ELSE Passed(c5, << <<1, 0>> >>, username)
                             : e \in await_bytes(c4, S, password_len)}
                      : d \in await_bytes(c3, S, 1)}
              : b \in await_bytes(c2, S, username_len)}
      : a \in await_bytes(c, S, 1)}

\* Socks5Proxy::authenticate: two bytes are read first, and the second must
\* be 0x02
socks5_authenticate(c, S, users) ==
    UNION {
      IF ~a.ok THEN {Failed(a.conn, "ConnectionClosed", <<>>)}
      ELSE
        LET auth_version == a.conn.rb[1]
            auth_method  == a.conn.rb[2]
            c2           == Consume(a.conn, 2)
        IN  IF auth_version # 1 \/ auth_method # 2
              THEN {Failed(c2, "InvalidAuthMethod", <<>>)}
              ELSE authenticate_fields(c2, S, users)
      : a \in await_bytes(c, S, 2)}

\* to_socket_addrs on (domain, port): what the resolver may answer
Resolutions == {"ok", "error", "empty"}

\* u16::from_be_bytes
from_be_bytes(hi, lo) == hi * 256 + lo

\* Socks5Proxy::handle_request, the address of the given type: addr_len bytes
\* and a port
request_address(c, S, kind, addr_len) ==
    {IF ~a.ok THEN Failed(a.conn, "ConnectionClosed", <<>>)
     ELSE Passed(Consume(a.conn, addr_len + 2), <<>>,
                 [kind |-> kind, addr |-> Take(a.conn.rb, addr_len),
                  port |-> from_be_bytes(a.conn.rb[addr_len + 1],
                                         a.conn.rb[addr_len + 2])])
     : a \in await_bytes(c, S, addr_len + 2)}

\* Socks5Proxy::handle_request, a domain name: its length, the name and the
\* port, then the lookup, whose answer is res
request_domain(c, S, res) ==
    UNION {
      IF ~a.ok THEN {Failed(a.conn, "ConnectionClosed", <<>>)}
      ELSE
        LET domain_len == a.conn.rb[1]
            c2         == Consume(a.conn, 1)
        IN  {IF ~b.ok THEN Failed(b.conn, "ConnectionClosed", <<>>)
             ELSE
               LET domain == Take(b.conn.rb, domain_len)
               IN  IF ~IsUtf8(domain)
                     THEN Failed(Consume(b.conn, domain_len), "InvalidUtf8", <<>>)
                   ELSE IF res # "ok"
                     THEN Failed(Consume(b.conn, domain_len + 2),
                                 "AddressResolutionFailed", <<>>)
                   ELSE Passed(Consume(b.conn, domain_len + 2), <<>>,
                               [kind |-> "resolved", addr |-> domain,
                                port |-> from_be_bytes(b.conn.rb[domain_len + 1],
                                                       b.conn.rb[domain_len + 2])])
             : b \in await_bytes(c2, S, domain_len + 2)}
      : a \in await_bytes(c, S, 1)}

\* a plausible slip: the request's version byte is not looked at
handle_request_AnyVersion(c, S, res) ==
    UNION {
      IF ~a.ok THEN {Failed(a.conn, "ConnectionClosed", <<>>)}
      ELSE
        LET command   == a.conn.rb[2]
            addr_type == a.conn.rb[4]
            c2        == Consume(a.conn, 4)
        IN  IF command # 1 THEN {Failed(c2, "UnsupportedCommand", <<>>)}
            ELSE IF addr_type = 1 THEN request_address(c2, S, "ipv4", 4)
            ELSE IF addr_type = 3 THEN request_domain(c2, S, res)
            ELSE IF addr_type = 4 THEN request_address(c2, S, "ipv6", 16)
            ELSE {Failed(c2, "InvalidAddressType", <<>>)}
      : a \in await_bytes(c, S, 4)}

\* Socks5Proxy::handle_request: val is the target address
handle_request(c, S, res) ==
    UNION {
      IF ~a.ok THEN {Failed(a.conn, "ConnectionClosed", <<>>)}
      ELSE
        LET version   == a.conn.rb[1]
            command   == a.conn.rb[2]
            addr_type == a.conn.rb[4]
            c2        == Consume(a.conn, 4)
        IN  IF version # 5 THEN {Failed(c2, "InvalidVersion", <<>>)}
            ELSE IF command # 1 THEN {Failed(c2, "UnsupportedCommand", <<>>)}
            ELSE IF addr_type = 1 THEN request_address(c2, S, "ipv4", 4)
            ELSE IF addr_type = 3 THEN request_domain(c2, S, res)
            ELSE IF addr_type = 4 THEN request_address(c2, S, "ipv6", 16)
            ELSE {Failed(c2, "InvalidAddressType", <<>>)}
      : a \in await_bytes(c, S, 4)}

\* a plausible slip: the reply carries no bound port
success_reply_Short == <<5, 0, 0, 1, 0, 0, 0, 0>>

\* Socks5Proxy::send_connection_success: the reply it writes
success_reply == <<5, 0, 0, 1, 0, 0, 0, 0, 0, 0>>

\* ------------------------------------------------- proxy/http.rs, operators

\* char::is_whitespace on the chars that `byte as char` yields (U+0000..U+00FF)
is_whitespace(ch) == ch \in {9, 10, 11, 12, 13, 32, 133, 160}

\* char::to_lowercase on those chars
to_lowercase_char(ch) ==
    IF ch \in 65..90 \/ (ch \in 192..222 /\ ch # 215) THEN ch + 32 ELSE ch

\* str::to_lowercase
to_lowercase(s) == [i \in 1..Len(s) |-> to_lowercase_char(s[i])]

\* str::trim_start
RECURSIVE trim_start(_)
trim_start(s) ==
    IF s # <<>> /\ is_whitespace(s[1]) THEN trim_start(Tail(s)) ELSE s

\* str::trim_end
RECURSIVE trim_end(_)
trim_end(s) ==
    IF s # <<>> /\ is_whitespace(s[Len(s)])
      THEN trim_end(Take(s, Len(s) - 1))
      ELSE s

\* str::trim
trim(s) == trim_end(trim_start(s))

\* str::find(char): the index from 0 of the first ch, -1 for None
find(s, ch) ==
    IF \E i \in 1..Len(s) : s[i] = ch
      THEN (CHOOSE i \in 1..Len(s) :
              s[i] = ch /\ \A j \in 1..(i - 1) : s[j] # ch) - 1
      ELSE -1

\* str::rfind(char): the index from 0 of the last ch, -1 for None
rfind(s, ch) ==
    IF \E i \in 1..Len(s) : s[i] = ch
      THEN (CHOOSE i \in 1..Len(s) :
              s[i] = ch /\ \A j \in (i + 1)..Len(s) : s[j] # ch) - 1
      ELSE -1

\* str::starts_with, str::strip_prefix(..).is_some()
starts_with(s, prefix) == Len(s) >= Len(prefix) /\ Take(s, Len(prefix)) = prefix

\* str::split_whitespace, collected
RECURSIVE split_whitespace(_)
split_whitespace(s) ==
    LET t == trim_start(s)
    IN  IF t = <<>> THEN <<>>
        ELSE LET n == IF \E i \in 1..Len(t) : is_whitespace(t[i])
                        THEN (CHOOSE i \in 1..Len(t) :
                                /\ is_whitespace(t[i])
                                /\ \A j \in 1..(i - 1) : ~is_whitespace(t[j])) - 1
                        ELSE Len(t)
             IN  <<Take(t, n)>> \o split_whitespace(Drop(t, n))

\* the value of a string of decimal digits
RECURSIVE digits_value(_)
digits_value(s) ==
    IF s = <<>> THEN 0
    ELSE digits_value(Take(s, Len(s) - 1)) * 10 + (s[Len(s)] - 48)

\* str::parse::<usize> and ::<u16>, below the width's limit: digits, after an
\* optional '+'; -1 for Err
parse_number(s) ==
    LET d == IF s # <<>> /\ s[1] = 43 THEN Tail(s) ELSE s
    IN  IF d # <<>> /\ \A i \in 1..Len(d) : d[i] \in 48..57
          THEN digits_value(d)
          ELSE -1

\* String::as_bytes of a string pushed one `byte as char` at a time: UTF-8,
\* two bytes for the chars from U+0080
RECURSIVE as_bytes(_)
as_bytes(s) ==
    IF s = <<>> THEN <<>>
    ELSE (IF s[1] < 128 THEN <<s[1]>>
          ELSE <<192 + (s[1] \div 64), 128 + (s[1] % 64)>>) \o as_bytes(Tail(s))

\* the inner loop of HttpProxy::parse_request over the bytes of the stream
\* from offset i on, one at a time: CR LF and a lone LF end the line, CR and
\* another byte are both pushed. [ok, line, next]; ~ok when the stream ends
\* first.
RECURSIVE scan_line(_, _, _)
scan_line(S, i, line) ==
    IF i >= Len(S) THEN [ok |-> FALSE, line |-> line, next |-> Len(S)]
    ELSE IF S[i + 1] = 13
      THEN IF i + 1 >= Len(S)
             THEN [ok |-> FALSE, line |-> line, next |-> Len(S)]
           ELSE IF S[i + 2] = 10
             THEN [ok |-> TRUE, line |-> line, next |-> i + 2]
           ELSE scan_line(S, i + 2, line \o <<13, S[i + 2]>>)
    ELSE IF S[i + 1] = 10
      THEN [ok |-> TRUE, line |-> line, next |-> i + 1]
    ELSE scan_line(S, i + 1, Append(line, S[i + 1]))

\* HashMap::insert: headers is the set of the map's entries
insert(headers, name, value) ==
    {h \in headers : h.name # name} \cup {[name |-> name, value |-> value]}

\* HashMap::get
get(headers, name) ==
    IF \E h \in headers : h.name = name
      THEN [some |-> TRUE, value |-> (CHOOSE h \in headers : h.name = name).value]
      ELSE [some |-> FALSE, value |-> <<>>]

\* parse_request, one header line: split at the first ':', the name trimmed
\* and lowercased, the value trimmed; a line without ':' is skipped
insert_header(headers, header_line) ==
    LET colon_pos == find(header_line, 58)
    IN  IF colon_pos >= 0
          THEN insert(headers,
                      to_lowercase(trim(Take(header_line, colon_pos))),
                      trim(Drop(header_line, colon_pos + 1)))
          ELSE headers

\* parse_request, the loop over the header lines up to the empty one
RECURSIVE parse_headers(_, _, _)
parse_headers(S, i, headers) ==
    LET l == scan_line(S, i, <<>>)
    IN  IF ~l.ok THEN [ok |-> FALSE, headers |-> headers, next |-> Len(S)]
        ELSE IF l.line = <<>>
          THEN [ok |-> TRUE, headers |-> headers, next |-> l.next]
        ELSE parse_headers(S, l.next, insert_header(headers, l.line))

\* an HttpRequest with nothing in it
no_request ==
    [method |-> <<>>, path |-> <<>>, version |-> <<>>, headers |-> {},
     body |-> <<>>]

Str_content_length == <<99, 111, 110, 116, 101, 110, 116, 45, 108, 101, 110, 103, 116, 104>>
Str_authorization  == <<97, 117, 116, 104, 111, 114, 105, 122, 97, 116, 105, 111, 110>>
Str_Basic          == <<66, 97, 115, 105, 99, 32>>
Str_CONNECT        == <<67, 79, 78, 78, 69, 67, 84>>
Str_proxy          == <<112, 114, 111, 120, 121, 45>>
Str_connection     == <<99, 111, 110, 110, 101, 99, 116, 105, 111, 110>>
Str_http           == <<104, 116, 116, 112, 58, 47, 47>>
Str_https          == <<104, 116, 116, 112, 115, 58, 47, 47>>
Str_slash          == <<47>>
CRLF               == <<13, 10>>

\* "HTTP/1.1 407 Proxy Authentication Required\r\n"
\* "Proxy-Authenticate: Basic realm=\"WProxy\"\r\n" "Content-Length: 0\r\n" "\r\n"
response_407 ==
    <<72, 84, 84, 80, 47, 49, 46, 49, 32, 52, 48, 55, 32, 80, 114, 111, 120, 121, 32, 65, 117, 116, 104, 101, 110, 116, 105, 99, 97, 116, 105, 111, 110, 32, 82, 101, 113, 117, 105, 114, 101, 100, 13, 10>>
    \o <<80, 114, 111, 120, 121, 45, 65, 117, 116, 104, 101, 110, 116, 105, 99, 97, 116, 101, 58, 32, 66, 97, 115, 105, 99, 32, 114, 101, 97, 108, 109, 61, 34, 87, 80, 114, 111, 120, 121, 34, 13, 10>>
    \o <<67, 111, 110, 116, 101, 110, 116, 45, 76, 101, 110, 103, 116, 104, 58, 32, 48, 13, 10>>
    \o CRLF

\* "HTTP/1.1 200 Connection Established\r\n" "Content-Length: 0\r\n" "\r\n"
response_200 ==
    <<72, 84, 84, 80, 47, 49, 46, 49, 32, 50, 48, 48, 32, 67, 111, 110, 110, 101, 99, 116, 105, 111, 110, 32, 69, 115, 116, 97, 98, 108, 105, 115, 104, 101, 100, 13, 10>>
    \o <<67, 111, 110, 116, 101, 110, 116, 45, 76, 101, 110, 103, 116, 104, 58, 32, 48, 13, 10>>
    \o CRLF

\* "Connection: close\r\n"
connection_close == <<67, 111, 110, 110, 101, 99, 116, 105, 111, 110, 58, 32, 99, 108, 111, 115, 101, 13, 10>>

\* HttpProxy::parse_request as a function of the stream and of the offset
\* start of the first byte not yet taken from the buffer: what it returns and
\* the offset next of the first byte it leaves. The body loop breaks at the
\* end of the stream and returns the bytes it has.
parsed_request(S, start) ==
    LET rl == scan_line(S, start, <<>>)
        parts == split_whitespace(rl.line)
        h == parse_headers(S, rl.next, {})
        content_length == get(h.headers, Str_content_length)
        len == parse_number(content_length.value)
        body_end == Min(h.next + len, Len(S))
        Err(e, next) == [ok |-> FALSE, err |-> e, next |-> next,
                         request |-> no_request]
        Ok(next, body) ==
            [ok |-> TRUE, err |-> "", next |-> next,
             request |-> [method |-> parts[1], path |-> parts[2],
                          version |-> parts[3], headers |-> h.headers,
                          body |-> body]]
    IN  IF ~rl.ok THEN Err("ClosedDuringRequestParsing", Len(S))
        ELSE IF Len(parts) < 3 THEN Err("InvalidRequestLine", rl.next)
        ELSE IF ~h.ok THEN Err("ClosedDuringHeaderParsing", Len(S))
        ELSE IF ~content_length.some THEN Ok(h.next, <<>>)
        ELSE IF len < 0 THEN Err("ParseIntError", h.next)
        ELSE Ok(body_end, Chunk(S, h.next, body_end - h.next))

\* the connection once parse_request has taken the bytes up to offset next:
\* it calls read only when nothing is buffered, so if it read at all, the
\* last read began before next and brought at most BufferSize bytes
conn_after(c, S, next) ==
    IF next <= c.pos
      THEN {[rb |-> Chunk(S, next, c.pos - next), pos |-> c.pos]}
      ELSE {[rb |-> Chunk(S, next, q - next), pos |-> q]
            : q \in next..Min(next - 1 + BufferSize, Len(S))}

\* HttpProxy::parse_request: outcomes [conn, ok, err, writes, val]
parse_request(c, S) ==
    LET p == parsed_request(S, c.pos - Len(c.rb))
    IN  {IF p.ok THEN Passed(c2, <<>>, p.request) ELSE Failed(c2, p.err, <<>>)
         : c2 \in conn_after(c, S, p.next)}

\* the value of a symbol of the standard base64 alphabet, -1 for any other
base64_value(ch) ==
    IF ch \in 65..90 THEN ch - 65
    ELSE IF ch \in 97..122 THEN ch - 71
    ELSE IF ch \in 48..57 THEN ch + 4
    ELSE IF ch = 43 THEN 62
    ELSE IF ch = 47 THEN 63
    ELSE -1

\* the bytes that a run of base64 values stands for: three a group of four;
\* a rest of two or three values has its unused bits zero
RECURSIVE decode_values(_)
decode_values(v) ==
    IF Len(v) = 0 THEN [ok |-> TRUE, data |-> <<>>]
    ELSE IF Len(v) = 1 THEN [ok |-> FALSE, data |-> <<>>]
    ELSE IF Len(v) = 2
      THEN [ok |-> v[2] % 16 = 0, data |-> <<v[1] * 4 + (v[2] \div 16)>>]
    ELSE IF Len(v) = 3
      THEN [ok |-> v[3] % 4 = 0,
            data |-> <<v[1] * 4 + (v[2] \div 16),
                       (v[2] % 16) * 16 + (v[3] \div 4)>>]
    ELSE LET rest == decode_values(Drop(v, 4))
         IN  [ok |-> rest.ok,
              data |-> <<v[1] * 4 + (v[2] \div 16),
                         (v[2] % 16) * 16 + (v[3] \div 4),
                         (v[3] % 4) * 64 + v[4]>> \o rest.data]

\* general_purpose::STANDARD.decode: the padding is required and canonical
base64_decode(s) ==
    LET pad == IF Len(s) >= 2 /\ s[Len(s)] = 61 /\ s[Len(s) - 1] = 61 THEN 2
               ELSE IF Len(s) >= 1 /\ s[Len(s)] = 61 THEN 1
               ELSE 0
        symbols == Take(s, Len(s) - pad)
        values == [i \in 1..Len(symbols) |-> base64_value(symbols[i])]
        decoded == decode_values(values)
    IN  IF Len(s) % 4 # 0 \/ \E i \in 1..Len(values) : values[i] < 0
          THEN [ok |-> FALSE, data |-> <<>>]
        ELSE IF decoded.ok THEN decoded
        ELSE [ok |-> FALSE, data |-> <<>>]

\* a plausible slip: credentials that cannot be decoded are answered with
\* the 407 response as well
http_authenticate_Challenge(request, users) ==
    LET auth_header == get(request.headers, Str_authorization)
        encoded == Drop(auth_header.value, Len(Str_Basic))
        decoded == base64_decode(encoded)
        credentials == decoded.data
        colon_pos == find(credentials, 58)
        username == Take(credentials, colon_pos)
        password == Drop(credentials, colon_pos + 1)
        Required == [ok |-> FALSE, err |-> "ProxyAuthRequired",
                     writes |-> <<response_407>>]
        Err(e) == [ok |-> FALSE, err |-> e, writes |-> <<response_407>>]
    IN  IF auth_header.some /\ starts_with(auth_header.value, Str_Basic)
          THEN IF ~decoded.ok THEN Err("DecodeError")
               ELSE IF ~IsUtf8(credentials) THEN Err("FromUtf8Error")
               ELSE IF colon_pos >= 0
                 THEN IF authenticate(users, username, password) = "true"
                        THEN [ok |-> TRUE, err |-> "", writes |-> <<>>]
                        ELSE Err(authenticate(users, username, password))
               ELSE Required
          ELSE Required

\* HttpProxy::authenticate: [ok, err, writes]. Ok when the "authorization"
\* header carries "Basic " and the base64 of user:password that
\* AuthManager::authenticate accepts; its Err, and those of the decoding,
\* leave by `?`; every other way ends in the 407 response.
http_authenticate(request, users) ==
    LET auth_header == get(request.headers, Str_authorization)
        encoded == Drop(auth_header.value, Len(Str_Basic))
        decoded == base64_decode(encoded)
        credentials == decoded.data
        colon_pos == find(credentials, 58)
        username == Take(credentials, colon_pos)
        password == Drop(credentials, colon_pos + 1)
        Required == [ok |-> FALSE, err |-> "ProxyAuthRequired",
                     writes |-> <<response_407>>]
        Err(e) == [ok |-> FALSE, err |-> e, writes |-> <<>>]
    IN  IF auth_header.some /\ starts_with(auth_header.value, Str_Basic)
          THEN IF ~decoded.ok THEN Err("DecodeError")
               ELSE IF ~IsUtf8(credentials) THEN Err("FromUtf8Error")
               ELSE IF colon_pos >= 0
                 THEN IF authenticate(users, username, password) = "true"
                        THEN [ok |-> TRUE, err |-> "", writes |-> <<>>]
                        ELSE Err(authenticate(users, username, password))
               ELSE Required
          ELSE Required

\* <str as ToSocketAddrs>::to_socket_addrs, its parsing of "host:port" (a
\* name for host): split at the last ':', the port a u16
connect_target(path) ==
    LET colon_pos == rfind(path, 58)
        port == parse_number(Drop(path, colon_pos + 1))
    IN  IF colon_pos < 0 \/ port < 0 \/ port > 65535
          THEN [ok |-> FALSE, kind |-> "domain", addr |-> <<>>, port |-> 0]
          ELSE [ok |-> TRUE, kind |-> "domain", addr |-> Take(path, colon_pos),
                port |-> port]

\* the offset of the first of '/' and '?' in s, Len(s) without one
authority_end(s) ==
    IF \E i \in 1..Len(s) : s[i] \in {47, 63}
      THEN (CHOOSE i \in 1..Len(s) :
              s[i] \in {47, 63} /\ \A j \in 1..(i - 1) : s[j] \notin {47, 63}) - 1
      ELSE Len(s)

\* url::Url::parse with host_str, port_or_known_default, path and query, for
\* the request targets of Spec: http and https URLs of a host name, an
\* optional port, a path and an optional query, without user info or
\* fragment; a target without a scheme is RelativeUrlWithoutBase
url_parse(input) ==
    LET scheme == IF starts_with(input, Str_http) THEN "http"
                  ELSE IF starts_with(input, Str_https) THEN "https"
                  ELSE "none"
        rest == Drop(input, IF scheme = "http" THEN Len(Str_http)
                            ELSE Len(Str_https))
        authority == Take(rest, authority_end(rest))
        after == Drop(rest, authority_end(rest))
        colon_pos == find(authority, 58)
        host == IF colon_pos < 0 THEN authority ELSE Take(authority, colon_pos)
        port_str == IF colon_pos < 0 THEN <<>> ELSE Drop(authority, colon_pos + 1)
        port == IF port_str = <<>>
                  THEN (IF scheme = "http" THEN 80 ELSE 443)
                  ELSE parse_number(port_str)
        query_pos == find(after, 63)
        path == IF query_pos < 0 THEN after ELSE Take(after, query_pos)
        Err(e) == [ok |-> FALSE, err |-> e, host |-> <<>>, port |-> 0,
                   path |-> <<>>, has_query |-> FALSE, query |-> <<>>]
    IN  IF scheme = "none" THEN Err("RelativeUrlWithoutBase")
        ELSE IF host = <<>> THEN Err("EmptyHost")
        ELSE IF port < 0 \/ port > 65535 THEN Err("InvalidPort")
        ELSE [ok |-> TRUE, err |-> "", host |-> to_lowercase(host), port |-> port,
              path |-> IF path = <<>> THEN Str_slash ELSE path,
              has_query |-> query_pos >= 0,
              query |-> Drop(after, query_pos + 1)]

\* handle_http_request, relative_path
relative_path(url) ==
    IF url.path = Str_slash /\ ~url.has_query THEN Str_slash
    ELSE IF ~url.has_query THEN url.path
    ELSE url.path \o <<63>> \o url.query

\* the orders in which `for (name, value) in &request.headers` can visit the
\* entries of the HashMap
iteration_orders(headers) ==
    {order \in [1..Cardinality(headers) -> headers] :
       \A i, j \in DOMAIN order : order[i] = order[j] => i = j}

\* handle_http_request, the loop over the headers in the given order: the
\* proxy-* and connection headers are left out
RECURSIVE forwarded_headers(_)
forwarded_headers(order) ==
    IF order = <<>> THEN <<>>
    ELSE (IF ~starts_with(order[1].name, Str_proxy)
             /\ order[1].name # Str_connection
            THEN as_bytes(order[1].name \o <<58, 32>> \o order[1].value) \o CRLF
            ELSE <<>>) \o forwarded_headers(Tail(order))

\* handle_http_request, what it queues with write_to_buffer and flushes to
\* the target: the request line, the headers, Connection: close, the empty
\* line and the body
rewritten_request(request, url, order) ==
    LET request_line == as_bytes(request.method \o <<32>> \o relative_path(url)
                                 \o <<32>> \o request.version) \o CRLF
        wb1 == write_to_buffer(<<>>, request_line)
        wb2 == write_to_buffer(wb1, forwarded_headers(order))
        wb3 == write_to_buffer(wb2, connection_close)
        wb4 == write_to_buffer(wb3, CRLF)
        wb5 == IF request.body # <<>> THEN write_to_buffer(wb4, request.body)
               ELSE wb4
    IN  flush(<<>>, wb5)

\* ---------------------------------------------------- proxy/tcp.rs, dispatch

\* a plausible slip: one range from 'A' to 'z'
protocol_of_OneRange(first_byte) ==
    IF first_byte = 5 THEN "socks5"
    ELSE IF first_byte >= 65 /\ first_byte <= 122 THEN "http"
    ELSE "unsupported"

\* TcpProxy::handle_connection, the match on first_byte
protocol_of(first_byte) ==
    IF first_byte = 5 THEN "socks5"
    ELSE IF \/ (first_byte >= 65 /\ first_byte <= 90)
            \/ (first_byte >= 97 /\ first_byte <= 122) THEN "http"
    ELSE "unsupported"

\* -------------------------------------------------------- Spec: the inputs

\* SOCKS5 greetings: VER NMETHODS METHODS
G_NoAuth   == <<5, 1, 0>>
G_UserPass == <<5, 1, 2>>
G_Both     == <<5, 2, 0, 2>>
G_Gssapi   == <<5, 1, 1>>
G_BadVer   == <<4, 1, 0>>

\* user/password messages for "u" with "p" or "x": as RFC 1929 frames them
\* (VER ULEN UNAME PLEN PASSWD) and with the extra 0x02 that
\* Socks5Proxy::authenticate reads after VER
A_Rfc_up  == <<1, 1, 117, 1, 112>>
A_Rfc_ux  == <<1, 1, 117, 1, 120>>
A_Code_up == <<1, 2, 1, 117, 1, 112>>
A_Code_ux == <<1, 2, 1, 117, 1, 120>>

\* SOCKS5 requests: VER CMD RSV ATYP ADDR PORT
R_V4      == <<5, 1, 0, 1, 127, 0, 0, 1, 0, 80>>
R_Domain  == <<5, 1, 0, 3, 1, 104, 0, 80>>
R_V6      == <<5, 1, 0, 4, 0, 0, 0, 0, 0, 0, 0, 0, 0, 0, 0, 0, 0, 0, 0, 1, 0, 80>>
R_Bind    == <<5, 2, 0, 1, 127, 0, 0, 1, 0, 80>>
R_BadAtyp == <<5, 1, 0, 9, 127, 0, 0, 1, 0, 80>>
R_BadVer  == <<4, 1, 0, 1, 127, 0, 0, 1, 0, 80>>

\* what the client sends through the tunnel: "hi"
Payload == <<104, 105>>

Socks5Streams ==
    { G_NoAuth \o R_V4 \o Payload,
      G_NoAuth \o R_V4,
      G_NoAuth \o R_Domain \o Payload,
      G_NoAuth \o R_V6,
      G_NoAuth \o R_Bind,
      G_NoAuth \o R_BadAtyp,
      G_NoAuth \o R_BadVer,
      G_NoAuth \o Take(R_V4, 7),
      G_UserPass \o A_Code_up \o R_V4 \o Payload,
      G_UserPass \o A_Code_ux \o R_V4 \o Payload,
      G_UserPass \o A_Rfc_up \o R_V4 \o Payload,
      G_UserPass \o A_Rfc_ux \o R_V4,
      G_UserPass \o R_V4 \o Payload,
      G_Both \o A_Code_up \o R_V4,
      G_Both \o R_V4 \o Payload,
      G_Gssapi \o R_V4,
      G_BadVer \o R_V4,
      <<5>>,
      <<5, 1>> }

\* HTTP request lines, headers and a body
L_Get      == <<71, 69, 84, 32, 104, 116, 116, 112, 58, 47, 47, 104, 47, 32, 72, 84, 84, 80, 47, 49, 46, 49, 13, 10>>
L_Post     == <<80, 79, 83, 84, 32, 104, 116, 116, 112, 58, 47, 47, 72, 58, 56, 49, 47, 112, 63, 113, 32, 72, 84, 84, 80, 47, 49, 46, 49, 13, 10>>
L_Connect  == <<67, 79, 78, 78, 69, 67, 84, 32, 104, 58, 52, 52, 51, 32, 72, 84, 84, 80, 47, 49, 46, 49, 13, 10>>
L_Brew     == <<66, 82, 69, 87, 32, 104, 116, 116, 112, 58, 47, 47, 104, 47, 32, 72, 84, 84, 80, 47, 49, 46, 49, 13, 10>>
L_Relative == <<71, 69, 84, 32, 47, 112, 32, 72, 84, 84, 80, 47, 49, 46, 49, 13, 10>>
L_Short    == <<71, 69, 84, 32, 47, 10>>
H_Host     == <<72, 111, 115, 116, 58, 32, 104, 13, 10>>
H_Auth_up  == <<65, 117, 116, 104, 111, 114, 105, 122, 97, 116, 105, 111, 110, 58, 32, 66, 97, 115, 105, 99, 32, 100, 84, 112, 119, 13, 10>>
H_Auth_ux  == <<65, 117, 116, 104, 111, 114, 105, 122, 97, 116, 105, 111, 110, 58, 32, 66, 97, 115, 105, 99, 32, 100, 84, 112, 52, 13, 10>>
H_Auth_bad == <<65, 117, 116, 104, 111, 114, 105, 122, 97, 116, 105, 111, 110, 58, 32, 66, 97, 115, 105, 99, 32, 100, 84, 13, 10>>
H_Auth_nc  == <<65, 117, 116, 104, 111, 114, 105, 122, 97, 116, 105, 111, 110, 58, 32, 66, 97, 115, 105, 99, 32, 100, 88, 65, 61, 13, 10>>
H_Auth_ff  == <<65, 117, 116, 104, 111, 114, 105, 122, 97, 116, 105, 111, 110, 58, 32, 66, 97, 115, 105, 99, 32, 47, 119, 61, 61, 13, 10>>
H_Auth_dig == <<65, 117, 116, 104, 111, 114, 105, 122, 97, 116, 105, 111, 110, 58, 32, 68, 105, 103, 101, 115, 116, 32, 117, 13, 10>>
H_Proxy_up == <<80, 114, 111, 120, 121, 45, 65, 117, 116, 104, 111, 114, 105, 122, 97, 116, 105, 111, 110, 58, 32, 66, 97, 115, 105, 99, 32, 100, 84, 112, 119, 13, 10>>
H_Proxy_ux == <<80, 114, 111, 120, 121, 45, 65, 117, 116, 104, 111, 114, 105, 122, 97, 116, 105, 111, 110, 58, 32, 66, 97, 115, 105, 99, 32, 100, 84, 112, 52, 13, 10>>
H_Length2  == <<67, 111, 110, 116, 101, 110, 116, 45, 76, 101, 110, 103, 116, 104, 58, 32, 50, 13, 10>>
H_LengthX  == <<67, 111, 110, 116, 101, 110, 116, 45, 76, 101, 110, 103, 116, 104, 58, 32, 120, 13, 10>>
Body2      == <<97, 98>>

HttpStreams ==
    { L_Get \o CRLF,
      L_Get \o H_Host \o CRLF,
      L_Get \o H_Auth_up \o CRLF,
      L_Get \o H_Auth_ux \o CRLF,
      L_Get \o H_Auth_bad \o CRLF,
      L_Get \o H_Auth_nc \o CRLF,
      L_Get \o H_Auth_ff \o CRLF,
      L_Get \o H_Auth_dig \o CRLF,
      L_Get \o H_Proxy_up \o CRLF,
      L_Get \o H_Proxy_ux \o H_Host \o CRLF,
      L_Get \o H_Host \o H_Auth_up \o CRLF \o Payload,
      L_Post \o H_Length2 \o CRLF \o Body2,
      L_Post \o H_Auth_up \o H_Length2 \o CRLF \o Take(Body2, 1),
      L_Post \o H_LengthX \o CRLF,
      L_Connect \o CRLF \o Payload,
      L_Connect \o H_Auth_up \o CRLF \o Payload,
      L_Connect \o H_Auth_ux \o CRLF,
      L_Connect \o H_Proxy_up \o CRLF,
      L_Connect \o H_Host \o CRLF,
      L_Brew \o CRLF,
      L_Relative \o CRLF,
      L_Relative \o H_Auth_up \o CRLF,
      L_Short \o CRLF,
      Take(L_Get, 10),
      L_Get \o Take(H_Host, 4) }

\* first bytes around the ranges of the dispatch, a TLS hello, and nothing
OtherStreams ==
    { <<>>, <<0>>, <<4>>, <<6>>, <<64>>, <<65>>, <<90>>, <<91>>, <<96>>, <<97>>,
      <<122>>, <<123>>, <<255>>, <<22, 3, 1>> }

\* what the target sends once connected
TargetStreams == { <<>>, <<200, 201>> }

\* TcpStream::connect: Ok, or an io::Error, or, while the target neither
\* accepts nor refuses, a future that stays pending
DialResults == {"ok", "refused", "silent"}

\* ------------------------------------------------- Spec: dispatch and SOCKS5

\* the writes w of a handler step, made in the given phase
Tagged(w, phase) == [i \in 1..Len(w) |-> [phase |-> phase, data |-> w[i]]]

\* the handler returns err (or "Ok"): the task is over, the connection dropped
Return(err) ==
    /\ sPc' = "done"
    /\ sErr' = err

\* a plausible slip: a connection that sent nothing is taken for an unknown
\* protocol
Dispatch_EmptyUnsupported ==
    /\ sPc = "dispatch"
    /\ \E r \in read(new_conn, sIn) :
         IF r.n = 0 \/ ~has_data(r.conn.rb)
           THEN /\ Return("UnsupportedProtocol")
                /\ sConn' = r.conn
                /\ UNCHANGED sProto
           ELSE LET first == read_from_buffer(r.conn.rb, 1)
                    first_byte == first.data[1]
                    proto == protocol_of(first_byte)
                IN  /\ sConn' = [r.conn EXCEPT !.rb = unread(first.rb, <<first_byte>>)]
                    /\ IF proto = "unsupported"
                         THEN /\ Return("UnsupportedProtocol")
                              /\ UNCHANGED sProto
                         ELSE /\ sProto' = proto
                              /\ sPc' = IF proto = "socks5" THEN "s5_handshake"
                                        ELSE "http_parse"
                              /\ UNCHANGED sErr
    /\ UNCHANGED <<sUsers, sIn, sOut, sMethod, sAuthed, sTarget, sDials, tIn, tConn,
                   tOut, fK, fEof, fIo, hReq>>
    /\ UNCHANGED <<bvars, avars>>

\* a plausible slip: the first byte is taken and not pushed back
Dispatch_Consuming ==
    /\ sPc = "dispatch"
    /\ \E r \in read(new_conn, sIn) :
         IF r.n = 0 \/ ~has_data(r.conn.rb)
           THEN /\ Return("NoDataReceived")
                /\ sConn' = r.conn
                /\ UNCHANGED sProto
           ELSE LET first == read_from_buffer(r.conn.rb, 1)
                    first_byte == first.data[1]
                    proto == protocol_of(first_byte)
                IN  /\ sConn' = [r.conn EXCEPT !.rb = first.rb]
                    /\ IF proto = "unsupported"
                         THEN /\ Return("UnsupportedProtocol")
                              /\ UNCHANGED sProto
                         ELSE /\ sProto' = proto
                              /\ sPc' = IF proto = "socks5" THEN "s5_handshake"
                                        ELSE "http_parse"
                              /\ UNCHANGED sErr
    /\ UNCHANGED <<sUsers, sIn, sOut, sMethod, sAuthed, sTarget, sDials, tIn, tConn,
                   tOut, fK, fEof, fIo, hReq>>
    /\ UNCHANGED <<bvars, avars>>

\* TcpProxy::handle_connection up to its match: one read, the first byte
\* taken and pushed back, the handler chosen
Dispatch ==
    /\ sPc = "dispatch"
    /\ \E r \in read(new_conn, sIn) :
         IF r.n = 0 \/ ~has_data(r.conn.rb)
           THEN /\ Return("NoDataReceived")
                /\ sConn' = r.conn
                /\ UNCHANGED sProto
           ELSE LET first == read_from_buffer(r.conn.rb, 1)
                    first_byte == first.data[1]
                    proto == protocol_of(first_byte)
                IN  /\ sConn' = [r.conn EXCEPT !.rb = unread(first.rb, <<first_byte>>)]
                    /\ IF proto = "unsupported"
                         THEN /\ Return("UnsupportedProtocol")
                              /\ UNCHANGED sProto
                         ELSE /\ sProto' = proto
                              /\ sPc' = IF proto = "socks5" THEN "s5_handshake"
                                        ELSE "http_parse"
                              /\ UNCHANGED sErr
    /\ UNCHANGED <<sUsers, sIn, sOut, sMethod, sAuthed, sTarget, sDials, tIn, tConn,
                   tOut, fK, fEof, fIo, hReq>>
    /\ UNCHANGED <<bvars, avars>>

\* Socks5Proxy::handle_connection, step 1: self.handshake(conn).await?
S5Handshake ==
    /\ sPc = "s5_handshake"
    /\ \E r \in handshake(sConn, sIn, sUsers) :
         /\ sConn' = r.conn
         /\ sOut' = sOut \o Tagged(r.writes, "method")
         /\ IF r.ok
              THEN /\ sMethod' = r.val
                   /\ sPc' = IF r.val = 2 THEN "s5_auth" ELSE "s5_request"
                   /\ UNCHANGED sErr
              ELSE /\ Return(r.err)
                   /\ UNCHANGED sMethod
    /\ UNCHANGED <<sUsers, sIn, sProto, sAuthed, sTarget, sDials, tIn, tConn, tOut,
                   fK, fEof, fIo, hReq>>
    /\ UNCHANGED <<bvars, avars>>

\* step 2, when 0x02 was selected: self.authenticate(conn).await?
S5Authenticate ==
    /\ sPc = "s5_auth"
    /\ \E r \in socks5_authenticate(sConn, sIn, sUsers) :
         /\ sConn' = r.conn
         /\ sOut' = sOut \o Tagged(r.writes, "auth")
         /\ IF r.ok
              THEN /\ sAuthed' = TRUE
                   /\ sPc' = "s5_request"
                   /\ UNCHANGED sErr
              ELSE /\ Return(r.err)
                   /\ UNCHANGED sAuthed
    /\ UNCHANGED <<sUsers, sIn, sProto, sMethod, sTarget, sDials, tIn, tConn, tOut,
                   fK, fEof, fIo, hReq>>
    /\ UNCHANGED <<bvars, avars>>

\* step 3: self.handle_request(conn).await?
S5Request ==
    /\ sPc = "s5_request"
    /\ \E res \in Resolutions :
         \E r \in handle_request(sConn, sIn, res) :
           /\ sConn' = r.conn
           /\ sOut' = sOut \o Tagged(r.writes, "request")
           /\ IF r.ok
                THEN /\ sTarget' = r.val
                     /\ sPc' = "s5_connect"
                     /\ UNCHANGED sErr
                ELSE /\ Return(r.err)
                     /\ UNCHANGED sTarget
    /\ UNCHANGED <<sUsers, sIn, sProto, sMethod, sAuthed, sDials, tIn, tConn, tOut,
                   fK, fEof, fIo, hReq>>
    /\ UNCHANGED <<bvars, avars>>

\* a plausible slip: the success reply is written before the dial is made
S5Connect_ReplyFirst ==
    /\ sPc = "s5_connect"
    /\ sOut' = sOut \o Tagged(<<success_reply>>, "request")
    /\ \E d \in DialResults :
         /\ sDials' = Append(sDials, [target |-> sTarget, result |-> d])
         /\ IF d = "ok"
              THEN /\ sPc' = "forward"
                   /\ \E t \in TargetStreams : tIn' = t
                   /\ UNCHANGED sErr
              ELSE /\ IF d = "silent"
                        THEN sPc' = "dialling" /\ UNCHANGED sErr
                        ELSE Return("ConnectTargetFailed")
                   /\ UNCHANGED tIn
    /\ tConn' = new_conn
    /\ fK' = sConn.pos - Len(sConn.rb)
    /\ UNCHANGED <<sUsers, sIn, sConn, sProto, sMethod, sAuthed, sTarget, tOut,
                   fEof, fIo, hReq>>
    /\ UNCHANGED <<bvars, avars>>

\* step 4: TcpStream::connect(target_addr).await, mapped to
\* ConnectTargetFailed when it fails
S5Connect ==
    /\ sPc = "s5_connect"
    /\ \E d \in DialResults :
         /\ sDials' = Append(sDials, [target |-> sTarget, result |-> d])
         /\ IF d = "ok"
              THEN /\ sPc' = "s5_reply"
                   /\ \E t \in TargetStreams : tIn' = t
                   /\ UNCHANGED sErr
              ELSE /\ IF d = "silent"
                        THEN sPc' = "dialling" /\ UNCHANGED sErr
                        ELSE Return("ConnectTargetFailed")
                   /\ UNCHANGED tIn
    /\ UNCHANGED <<sUsers, sIn, sConn, sOut, sProto, sMethod, sAuthed, sTarget, tConn,
                   tOut, fK, fEof, fIo, hReq>>
    /\ UNCHANGED <<bvars, avars>>

\* steps 5 and 6 up to the forwarder: send_connection_success, then the
\* target's BufferedConnection is made
S5SendSuccess ==
    /\ sPc = "s5_reply"
    /\ sOut' = sOut \o Tagged(<<success_reply>>, "request")
    /\ tConn' = new_conn
    /\ fK' = sConn.pos - Len(sConn.rb)
    /\ sPc' = "forward"
    /\ UNCHANGED <<sUsers, sIn, sConn, sProto, sErr, sMethod, sAuthed, sTarget,
                   sDials, tIn, tOut, fEof, fIo, hReq>>
    /\ UNCHANGED <<bvars, avars>>

\* --------------------------------------------------- proxy/http.rs, actions

\* HttpProxy::handle_connection, step 1: self.parse_request(conn).await?
HttpParseRequest ==
    /\ sPc = "http_parse"
    /\ \E r \in parse_request(sConn, sIn) :
         /\ sConn' = r.conn
         /\ IF r.ok
              THEN /\ hReq' = r.val
                   /\ sPc' = IF has_users(sUsers) THEN "http_auth" ELSE "http_route"
                   /\ UNCHANGED sErr
              ELSE /\ Return(r.err)
                   /\ UNCHANGED hReq
    /\ UNCHANGED <<sUsers, sIn, sOut, sProto, sMethod, sAuthed, sTarget, sDials, tIn,
                   tConn, tOut, fK, fEof, fIo>>
    /\ UNCHANGED <<bvars, avars>>

\* step 2, when has_users(): self.authenticate(conn, &request).await?
HttpAuthenticate ==
    /\ sPc = "http_auth"
    /\ LET r == http_authenticate(hReq, sUsers)
       IN  /\ sOut' = sOut \o Tagged(r.writes, "auth")
           /\ IF r.ok
                THEN /\ sAuthed' = TRUE
                     /\ sPc' = "http_route"
                     /\ UNCHANGED sErr
                ELSE /\ Return(r.err)
                     /\ UNCHANGED sAuthed
    /\ UNCHANGED <<sUsers, sIn, sConn, sProto, sMethod, sTarget, sDials, tIn, tConn,
                   tOut, fK, fEof, fIo, hReq>>
    /\ UNCHANGED <<bvars, avars>>

\* step 3 for CONNECT, HttpProxy::handle_connect up to the forwarder: the
\* address is resolved, the target dialled, the 200 response written
HttpConnect ==
    /\ sPc = "http_route"
    /\ hReq.method = Str_CONNECT
    /\ LET target == connect_target(hReq.path)
       IN  \E res \in Resolutions, d \in DialResults, t \in TargetStreams :
             IF ~target.ok \/ res # "ok"
               THEN /\ Return(IF ~target.ok \/ res = "error" THEN "ResolveFailed"
                              ELSE "NotFound")
                    /\ UNCHANGED <<sOut, sTarget, sDials, tIn, fK>>
               ELSE /\ sTarget' = [kind |-> target.kind, addr |-> target.addr,
                                   port |-> target.port]
                    /\ sDials' = Append(sDials, [target |-> sTarget', result |-> d])
                    /\ IF d = "ok"
                         THEN /\ tIn' = t
                              /\ sOut' = sOut \o Tagged(<<response_200>>, "connect")
                              /\ fK' = sConn.pos - Len(sConn.rb)
                              /\ sPc' = "forward"
                              /\ UNCHANGED sErr
                         ELSE /\ IF d = "silent"
                                   THEN sPc' = "dialling" /\ UNCHANGED sErr
                                   ELSE Return("ConnectionRefused")
                              /\ UNCHANGED <<sOut, tIn, fK>>
    /\ tConn' = new_conn
    /\ UNCHANGED <<sUsers, sIn, sConn, sProto, sMethod, sAuthed, tOut, fEof, fIo, hReq>>
    /\ UNCHANGED <<bvars, avars>>

\* step 3 for every other method, HttpProxy::handle_http_request up to the
\* forwarder: the URL is parsed, the host resolved, the target dialled, the
\* rewritten request flushed to it
HttpRequest ==
    /\ sPc = "http_route"
    /\ hReq.method # Str_CONNECT
    /\ LET url == url_parse(hReq.path)
       IN  \E res \in Resolutions, d \in DialResults, t \in TargetStreams :
             IF ~url.ok \/ res # "ok"
               THEN /\ Return(IF ~url.ok THEN url.err
                              ELSE IF res = "error" THEN "ResolveFailed"
                              ELSE "NotFound")
                    /\ UNCHANGED <<tOut, sTarget, sDials, tIn, fK>>
               ELSE /\ sTarget' = [kind |-> "domain", addr |-> url.host,
                                   port |-> url.port]
                    /\ sDials' = Append(sDials, [target |-> sTarget', result |-> d])
                    /\ IF d = "ok"
                         THEN /\ tIn' = t
                              /\ \E order \in iteration_orders(hReq.headers) :
                                   tOut' = tOut \o Tagged(
                                     <<rewritten_request(hReq, url, order)>>,
                                     "request")
                              /\ fK' = sConn.pos - Len(sConn.rb)
                              /\ sPc' = "forward"
                              /\ UNCHANGED sErr
                         ELSE /\ IF d = "silent"
                                   THEN sPc' = "dialling" /\ UNCHANGED sErr
                                   ELSE Return("ConnectionRefused")
                              /\ UNCHANGED <<tOut, tIn, fK>>
    /\ tConn' = new_conn
    /\ UNCHANGED <<sUsers, sIn, sConn, sOut, sProto, sMethod, sAuthed, fEof, fIo, hReq>>
    /\ UNCHANGED <<bvars, avars>>

\* a plausible slip: a dial that was given up is made once more
DialGivenUp_Retry ==
    /\ sPc = "dialling"
    /\ sDials' = Append(sDials, [target |-> sTarget, result |-> "refused"])
    /\ Return(IF sProto = "socks5" THEN "ConnectTargetFailed"
              ELSE "ConnectionRefused")
    /\ UNCHANGED <<sUsers, sIn, sConn, sOut, sProto, sMethod, sAuthed, sTarget,
                   tIn, tConn, tOut, fK, fEof, fIo, hReq>>
    /\ UNCHANGED <<bvars, avars>>

\* the handler waits in `TcpStream::connect(target_addr).await` with no
\* timer beside it: the wait ends only if the operating system gives the
\* attempt up, and then with the io::Error of a failed connect
DialGivenUp ==
    /\ sPc = "dialling"
    /\ Return(IF sProto = "socks5" THEN "ConnectTargetFailed"
              ELSE "ConnectionRefused")
    /\ UNCHANGED <<sUsers, sIn, sConn, sOut, sProto, sMethod, sAuthed, sTarget,
                   sDials, tIn, tConn, tOut, fK, fEof, fIo, hReq>>
    /\ UNCHANGED <<bvars, avars>>

\* no read and no write of the forwarder has failed
NoIoError == [side |-> "none", op |-> "none"]

\* ------------------------------------------------ proxy/forward.rs, actions

\* a plausible slip: the branch asks the buffer for a full temp_buffer of
\* bytes, not for the n just read
FwdFromClient_FullBuffer ==
    /\ sPc = "forward"
    /\ \E r \in read(sConn, sIn) :
         IF r.n = 0
           THEN /\ Return("Ok")
                /\ fEof' = fEof \cup {"client"} /\ UNCHANGED fIo
                /\ sConn' = r.conn
                /\ UNCHANGED tOut
           ELSE LET d == read_from_buffer(r.conn.rb, BufferSize)
                IN  IF d.some
                      THEN /\ sConn' = [r.conn EXCEPT !.rb = d.rb]
                           /\ tOut' = tOut \o Tagged(<<flush(<<>>,
                                          write_to_buffer(<<>>, d.data))>>, "splice")
                           /\ UNCHANGED <<sPc, sErr, fEof, fIo>>
                      ELSE /\ Return("BufferDataMismatch")
                           /\ sConn' = r.conn
                           /\ UNCHANGED <<tOut, fEof, fIo>>
    /\ UNCHANGED <<sUsers, sIn, sOut, sProto, sMethod, sAuthed, sTarget, sDials, tIn,
                   tConn, fK, hReq>>
    /\ UNCHANGED <<bvars, avars>>

\* Forwarder::forward_between, the select! branch that reads the client's
\* connection: Ok(0) returns Ok(()), Ok(n) takes n bytes from the front of the
\* buffer and writes them to the target
FwdFromClient ==
    /\ sPc = "forward"
    /\ \E r \in read(sConn, sIn) :
         IF r.n = 0
           THEN /\ Return("Ok")
                /\ fEof' = fEof \cup {"client"} /\ UNCHANGED fIo
                /\ sConn' = r.conn
                /\ UNCHANGED tOut
           ELSE LET d == read_from_buffer(r.conn.rb, r.n)
                IN  IF d.some
                      THEN /\ sConn' = [r.conn EXCEPT !.rb = d.rb]
                           /\ tOut' = tOut \o Tagged(<<flush(<<>>,
                                          write_to_buffer(<<>>, d.data))>>, "splice")
                           /\ UNCHANGED <<sPc, sErr, fEof, fIo>>
                      ELSE /\ Return("BufferDataMismatch")
                           /\ sConn' = r.conn
                           /\ UNCHANGED <<tOut, fEof, fIo>>
    /\ UNCHANGED <<sUsers, sIn, sOut, sProto, sMethod, sAuthed, sTarget, sDials, tIn,
                   tConn, fK, hReq>>
    /\ UNCHANGED <<bvars, avars>>

\* the select! branch that reads the target's connection, likewise
FwdFromTarget ==
    /\ sPc = "forward"
    /\ \E r \in read(tConn, tIn) :
         IF r.n = 0
           THEN /\ Return("Ok")
                /\ fEof' = fEof \cup {"target"} /\ UNCHANGED fIo
                /\ tConn' = r.conn
                /\ UNCHANGED sOut
           ELSE LET d == read_from_buffer(r.conn.rb, r.n)
                IN  IF d.some
                      THEN /\ tConn' = [r.conn EXCEPT !.rb = d.rb]
                           /\ sOut' = sOut \o Tagged(<<flush(<<>>,
                                          write_to_buffer(<<>>, d.data))>>, "splice")
                           /\ UNCHANGED <<sPc, sErr, fEof, fIo>>
                      ELSE /\ Return("BufferDataMismatch")
                           /\ tConn' = r.conn
                           /\ UNCHANGED <<sOut, fEof, fIo>>
    /\ UNCHANGED <<sUsers, sIn, sConn, sProto, sMethod, sAuthed, sTarget, sDials, tIn,
                   tOut, fK, hReq>>
    /\ UNCHANGED <<bvars, avars>>

\* a plausible slip: a failed read is logged and the loop goes on
FwdReadError_Swallowed ==
    /\ sPc = "forward"
    /\ fIo = NoIoError
    /\ \E side \in {"client", "target"} : fIo' = [side |-> side, op |-> "read"]
    /\ UNCHANGED <<sUsers, sIn, sConn, sOut, sPc, sProto, sErr, sMethod, sAuthed,
                   sTarget, sDials, tIn, tConn, tOut, fK, fEof, hReq>>
    /\ UNCHANGED <<bvars, avars>>

\* either select! branch, `Err(e) => return Err(e)`: the read of a side fails
\* (the connection was reset, say)
FwdReadError ==
    /\ sPc = "forward"
    /\ \E side \in {"client", "target"} : fIo' = [side |-> side, op |-> "read"]
    /\ Return("IoError")
    /\ UNCHANGED <<sUsers, sIn, sConn, sOut, sProto, sMethod, sAuthed, sTarget,
                   sDials, tIn, tConn, tOut, fK, fEof, hReq>>
    /\ UNCHANGED <<bvars, avars>>

\* the branch that reads the client, `conn2.flush().await?` failing: the n
\* bytes have left the client's buffer, the target got less than all of them
FwdToTargetFails ==
    /\ sPc = "forward"
    /\ \E r \in read(sConn, sIn) :
         /\ r.n > 0
         /\ LET d == read_from_buffer(r.conn.rb, r.n)
            IN  /\ d.some
                /\ sConn' = [r.conn EXCEPT !.rb = d.rb]
                /\ \E k \in 0..(Len(d.data) - 1) :
                     tOut' = IF k = 0 THEN tOut
                             ELSE tOut \o Tagged(<<Take(d.data, k)>>, "splice")
    /\ fIo' = [side |-> "target", op |-> "write"]
    /\ Return("IoError")
    /\ UNCHANGED <<sUsers, sIn, sOut, sProto, sMethod, sAuthed, sTarget, sDials, tIn,
                   tConn, fK, fEof, hReq>>
    /\ UNCHANGED <<bvars, avars>>

\* the branch that reads the target, `conn1.flush().await?` failing
FwdToClientFails ==
    /\ sPc = "forward"
    /\ \E r \in read(tConn, tIn) :
         /\ r.n > 0
         /\ LET d == read_from_buffer(r.conn.rb, r.n)
            IN  /\ d.some
                /\ tConn' = [r.conn EXCEPT !.rb = d.rb]
                /\ \E k \in 0..(Len(d.data) - 1) :
                     sOut' = IF k = 0 THEN sOut
                             ELSE sOut \o Tagged(<<Take(d.data, k)>>, "splice")
    /\ fIo' = [side |-> "client", op |-> "write"]
    /\ Return("IoError")
    /\ UNCHANGED <<sUsers, sIn, sConn, sProto, sMethod, sAuthed, sTarget, sDials, tIn,
                   tOut, fK, fEof, hReq>>
    /\ UNCHANGED <<bvars, avars>>

\* ------------------------------------------------------ Spec: init and next

ClientStreams == Socks5Streams \cup HttpStreams \cup OtherStreams

SessInit ==
    /\ sUsers \in {AuthManager_new(u) : u \in UserConfigs}
    /\ sIn \in ClientStreams
    /\ sConn = new_conn
    /\ sOut = <<>>
    /\ sPc = "dispatch"
    /\ sProto = "none"
    /\ sErr = ""
    /\ sMethod = 255
    /\ sAuthed = FALSE
    /\ sTarget = <<>>
    /\ sDials = <<>>
    /\ tIn = <<>>
    /\ tConn = new_conn
    /\ tOut = <<>>
    /\ fK = 0
    /\ fEof = {}
    /\ fIo = NoIoError
    /\ hReq = no_request

SessOff ==
    /\ sUsers = {}
    /\ sIn = <<>>
    /\ sConn = new_conn
    /\ sOut = <<>>
    /\ sPc = "off"
    /\ sProto = "none"
    /\ sErr = ""
    /\ sMethod = 255
    /\ sAuthed = FALSE
    /\ sTarget = <<>>
    /\ sDials = <<>>
    /\ tIn = <<>>
    /\ tConn = new_conn
    /\ tOut = <<>>
    /\ fK = 0
    /\ fEof = {}
    /\ fIo = NoIoError
    /\ hReq = no_request

SessNext ==
    \/ Dispatch
    \/ S5Handshake
    \/ S5Authenticate
    \/ S5Request
    \/ S5Connect
    \/ S5SendSuccess
    \/ HttpParseRequest
    \/ HttpAuthenticate
    \/ HttpConnect
    \/ HttpRequest
    \/ DialGivenUp
    \/ FwdFromClient
    \/ FwdFromTarget
    \/ FwdReadError
    \/ FwdToTargetFails
    \/ FwdToClientFails

\* --------------------------------------------------------- Spec: the claims

\* the streams of ClientStreams that present the user "u" with the password "x"
WrongPasswordStreams ==
    { G_UserPass \o A_Code_ux \o R_V4 \o Payload,
      G_UserPass \o A_Rfc_ux \o R_V4,
      L_Get \o H_Auth_ux \o CRLF,
      L_Connect \o H_Auth_ux \o CRLF }

\* the bytes that the forwarder wrote, in order
RECURSIVE Spliced(_)
Spliced(out) ==
    IF out = <<>> THEN <<>>
    ELSE (IF out[1].phase = "splice" THEN out[1].data ELSE <<>>)
         \o Spliced(Tail(out))

\* C1: with users configured, a target is dialled on a connection only after
\* AuthManager::authenticate returned true on it; a SOCKS5 client that offers
\* method 0x00 alone, an HTTP request without the credentials header, and a
\* wrong password never get to the dial.
C1_AuthGating ==
    has_users(sUsers) =>
      /\ sDials # <<>> => sAuthed
      /\ (Len(sIn) >= 3 /\ Take(sIn, 3) = G_NoAuth) => sDials = <<>>
      /\ (sProto = "http" /\ ~get(hReq.headers, Str_authorization).some)
           => sDials = <<>>
      /\ sIn \in WrongPasswordStreams => sDials = <<>>

\* C1's case: users are configured and an HTTP connection that authenticated
\* has dialled its target
C1_Witness ==
    /\ has_users(sUsers)
    /\ sProto = "http"
    /\ sAuthed
    /\ sDials # <<>>

\* C3: once the forwarder has returned Ok, the target has been written the
\* client's bytes after the fK that negotiation consumed, all of them and
\* nothing else, and the client has been written all that the target sent.
C3_SpliceLossless ==
    (sPc = "done" /\ sErr = "Ok") =>
      /\ Spliced(tOut) = Drop(sIn, fK)
      /\ Spliced(sOut) = tIn

\* C6: the forwarder returns only once it has seen the end of both streams.
C6_HalfClose ==
    (sPc = "done" /\ fEof # {}) => fEof = {"client", "target"}

\* C7: every reply that the SOCKS5 handler writes in the request phase has 10
\* bytes, 0x05 first, 0x00 third, 0x01 fourth, and zeros from the fifth on.
C7_ReplyWellFormed ==
    \A i \in 1..Len(sOut) :
      sOut[i].phase = "request" =>
        /\ Len(sOut[i].data) = 10
        /\ sOut[i].data[1] = 5
        /\ sOut[i].data[3] = 0
        /\ sOut[i].data[4] = 1
        /\ \A j \in 5..10 : sOut[i].data[j] = 0

\* C7's case: a reply has been written in the request phase
C7_Witness ==
    \E i \in 1..Len(sOut) : sOut[i].phase = "request"

\* C8: once a connection that sent a byte is dispatched, 0x05 as its first
\* byte has chosen the SOCKS5 handler, a letter the HTTP handler, and any
\* other byte has ended the task with UnsupportedProtocol and no handler.
C8_ProtocolDispatch ==
    (sPc \notin {"off", "dispatch"} /\ sIn # <<>>) =>
      /\ sIn[1] = 5 => sProto = "socks5"
      /\ (sIn[1] \in 65..90 \/ sIn[1] \in 97..122) => sProto = "http"
      /\ (sIn[1] # 5 /\ sIn[1] \notin 65..90 /\ sIn[1] \notin 97..122)
           => (sProto = "none" /\ sPc = "done" /\ sErr = "UnsupportedProtocol")

\* C8's case: the byte after 'Z' came first and the task has ended
C8_Witness ==
    /\ sIn # <<>>
    /\ sIn[1] = 91
    /\ sPc = "done"
    /\ sErr = "UnsupportedProtocol"

\* the method lists that a greeting can offer, as far as the selection can
\* tell them apart
MaxMethods == 3

MethodLists == SeqsUpTo({0, 1, 2}, MaxMethods)

\* the client's greeting is whole and the handshake step is over
HandshakeDone ==
    /\ sProto = "socks5"
    /\ sPc # "s5_handshake"
    /\ Len(sIn) >= 2
    /\ Len(sIn) >= 2 + sIn[2]

\* the METHODS of the greeting
OfferedMethods == SubSeq(sIn, 3, 2 + sIn[2])

\* the first write to the client is the method selection 05 m
MethodReply(m) ==
    /\ sOut # <<>>
    /\ sOut[1] = [phase |-> "method", data |-> <<5, m>>]

\* C13: with users configured the handshake selects 0x02 and writes 05 02
\* exactly when 0x02 is offered; otherwise it writes 05 FF and fails with
\* NoSupportedAuthMethod; 0x00 is never selected. For every method list, and
\* for every session whose greeting was read.
C13_MethodSelectionWithUsers ==
    has_users(sUsers) =>
      /\ \A methods \in MethodLists :
           select_method(methods, sUsers)
             = IF Contains(methods, 2) THEN 2 ELSE 255
      /\ HandshakeDone =>
           IF Contains(OfferedMethods, 2)
             THEN MethodReply(2) /\ sMethod = 2 /\ sErr # "NoSupportedAuthMethod"
             ELSE /\ MethodReply(255)
                  /\ sPc = "done"
                  /\ sErr = "NoSupportedAuthMethod"
                  /\ Len(sOut) = 1

\* users are configured, the client offered 0x00 and 0x02, and 05 02 was
\* written
C13_Witness ==
    /\ has_users(sUsers)
    /\ HandshakeDone
    /\ OfferedMethods = <<0, 2>>
    /\ MethodReply(2)

\* C14: without users the handshake selects 0x00 whenever it is offered,
\* 0x02 when 0x02 is offered and 0x00 is not, and writes 05 FF and fails only
\* when neither is offered.
C14_MethodSelectionNoUsers ==
    (~has_users(sUsers) /\ HandshakeDone) =>
      IF Contains(OfferedMethods, 0)
        THEN MethodReply(0) /\ sMethod = 0
      ELSE IF Contains(OfferedMethods, 2)
        THEN MethodReply(2) /\ sMethod = 2
      ELSE MethodReply(255) /\ sErr = "NoSupportedAuthMethod"

\* the user/password message of RFC 1929 that follows the greeting in the
\* client's stream: VER ULEN UNAME PLEN PASSWD; whole is whether all of it
\* was sent
SubNegotiation ==
    LET at == 2 + sIn[2]
        ulen == sIn[at + 2]
        plen == sIn[at + 3 + ulen]
        whole == /\ Len(sIn) >= at + 3
                 /\ Len(sIn) >= at + 3 + ulen
                 /\ Len(sIn) >= at + 3 + ulen + plen
    IN  IF whole
          THEN [whole |-> TRUE, ver |-> sIn[at + 1],
                uname |-> SubSeq(sIn, at + 3, at + 2 + ulen),
                passwd |-> SubSeq(sIn, at + 4 + ulen, at + 3 + ulen + plen)]
          ELSE [whole |-> FALSE, ver |-> 0, uname |-> <<>>, passwd |-> <<>>]

\* the authentication step of a session that selected 0x02 is over
SubNegotiationDone ==
    /\ HandshakeDone
    /\ sMethod = 2
    /\ sPc # "s5_auth"

\* C15: after 0x02 is selected, a message VER=0x01 ULEN UNAME PLEN PASSWD
\* with the name and password of a configured user is answered with 01 00
\* and the session goes on to the request.
C15_SubNegotiationSuccess ==
    (/\ SubNegotiationDone
     /\ SubNegotiation.whole
     /\ SubNegotiation.ver = 1
     /\ authenticate(sUsers, SubNegotiation.uname, SubNegotiation.passwd) = "true")
      => /\ sAuthed
         /\ Len(sOut) >= 2
         /\ sOut[2] = [phase |-> "auth", data |-> <<1, 0>>]

\* C16: when the name and password of the sub-negotiation do not match, the
\* server writes 01 01 and then ends the connection with
\* AuthenticationFailed, without going on to the request.
C16_AuthFailureReply ==
    (sProto = "socks5" /\ sErr = "AuthenticationFailed") =>
      /\ sPc = "done"
      /\ ~sAuthed
      /\ sDials = <<>>
      /\ sOut[Len(sOut)] = [phase |-> "auth", data |-> <<1, 1>>]

\* the last write to the client is a 10-byte reply of the request phase with
\* the given REP
LastReply(rep) ==
    /\ sOut # <<>>
    /\ sOut[Len(sOut)].phase = "request"
    /\ Len(sOut[Len(sOut)].data) = 10
    /\ sOut[Len(sOut)].data[1] = 5
    /\ sOut[Len(sOut)].data[2] = rep

\* C17: a request with VER=0x05 and a CMD other than 0x01 gets a 10-byte
\* reply with REP=0x07 and then fails with UnsupportedCommand; no target is
\* dialled.
C17_UnsupportedCommandReply ==
    (sProto = "socks5" /\ sErr = "UnsupportedCommand") =>
      /\ LastReply(7)
      /\ sDials = <<>>

\* C18: a CONNECT request with an ATYP other than 0x01, 0x03 and 0x04 gets a
\* reply with REP=0x08 and then fails with InvalidAddressType; no target is
\* dialled.
C18_InvalidAddressTypeReply ==
    (sProto = "socks5" /\ sErr = "InvalidAddressType") =>
      /\ LastReply(8)
      /\ sDials = <<>>

\* C19: when the requested target cannot be reached, a failure reply is
\* written before the connection ends: REP=0x05 for a refused connection,
\* REP=0x04 for a name that does not resolve.
C19_DialFailureReply ==
    (sProto = "socks5" /\ sPc = "done") =>
      /\ (sErr = "ConnectTargetFailed"
            /\ sDials[Len(sDials)].result = "refused") => LastReply(5)
      /\ sErr = "AddressResolutionFailed" => LastReply(4)

\* "proxy-authorization", a name as parse_request stores it
ProxyAuthorizationName ==
    <<112, 114, 111, 120, 121, 45, 97, 117, 116, 104, 111, 114, 105, 122, 97, 116, 105, 111, 110>>

\* "HTTP/1.1 407 Proxy Authentication Required\r\n"
\* "Proxy-Authenticate: Basic realm=\"Proxy\"\r\n" "Content-Length: 0\r\n" "\r\n"
Challenge407 ==
    <<72, 84, 84, 80, 47, 49, 46, 49, 32, 52, 48, 55, 32, 80, 114, 111, 120, 121, 32, 65, 117, 116, 104, 101, 110, 116, 105, 99, 97, 116, 105, 111, 110, 32, 82, 101, 113, 117, 105, 114, 101, 100, 13, 10>>
    \o <<80, 114, 111, 120, 121, 45, 65, 117, 116, 104, 101, 110, 116, 105, 99, 97, 116, 101, 58, 32, 66, 97, 115, 105, 99, 32, 114, 101, 97, 108, 109, 61, 34, 80, 114, 111, 120, 121, 34, 13, 10>>
    \o <<67, 111, 110, 116, 101, 110, 116, 45, 76, 101, 110, 103, 116, 104, 58, 32, 48, 13, 10>>
    \o CRLF

\* the request's Proxy-Authorization header is 'Basic <b64>' and the decoded
\* user:password authenticates
ValidProxyAuthorization ==
    LET header == get(hReq.headers, ProxyAuthorizationName)
        decoded == base64_decode(Drop(header.value, Len(Str_Basic)))
        colon_pos == find(decoded.data, 58)
    IN  /\ header.some
        /\ starts_with(header.value, Str_Basic)
        /\ decoded.ok
        /\ colon_pos >= 0
        /\ authenticate(sUsers, Take(decoded.data, colon_pos),
                        Drop(decoded.data, colon_pos + 1)) = "true"

\* C20: with users configured, a parsed request whose Proxy-Authorization
\* header is missing, is not 'Basic <b64>' or does not authenticate is
\* answered with exactly the 407 response of realm "Proxy" and fails with
\* ProxyAuthRequired; one with valid credentials in Proxy-Authorization is
\* accepted.
C20_ProxyAuthChallenge ==
    (/\ has_users(sUsers)
     /\ sProto = "http"
     /\ sPc \notin {"http_parse", "http_auth"}
     /\ hReq # no_request)
      => IF ValidProxyAuthorization
           THEN sAuthed
           ELSE /\ sPc = "done"
                /\ sErr = "ProxyAuthRequired"
                /\ sOut = <<[phase |-> "auth", data |-> Challenge407]>>

\* "HTTP/1.1 200 Connection Established\r\n" "\r\n"
Established200 ==
    <<72, 84, 84, 80, 47, 49, 46, 49, 32, 50, 48, 48, 32, 67, 111, 110, 110, 101, 99, 116, 105, 111, 110, 32, 69, 115, 116, 97, 98, 108, 105, 115, 104, 101, 100, 13, 10>>
    \o CRLF

\* the target of this connection was dialled and the dial succeeded
Dialled ==
    /\ sDials # <<>>
    /\ sDials[Len(sDials)].result = "ok"

\* C21: once the dial for a CONNECT request has succeeded, what the client
\* is written ahead of the spliced bytes is 'HTTP/1.1 200 Connection
\* Established\r\n\r\n' and nothing more; before the dial it is written
\* nothing of it.
C21_ConnectResponse ==
    (sProto = "http" /\ hReq.method = Str_CONNECT) =>
      /\ Dialled =>
           /\ sOut # <<>>
           /\ sOut[1] = [phase |-> "connect", data |-> Established200]
           /\ \A i \in 2..Len(sOut) : sOut[i].phase = "splice"
      /\ ~Dialled => \A i \in 1..Len(sOut) : sOut[i].phase # "connect"

\* the header lines of the request in stream S from offset i on, as received
RECURSIVE ReceivedHeaderLines(_, _)
ReceivedHeaderLines(S, i) ==
    LET l == scan_line(S, i, <<>>)
    IN  IF ~l.ok \/ l.line = <<>> THEN <<>>
        ELSE <<l.line>> \o ReceivedHeaderLines(S, l.next)

\* the lines that header fidelity asks for upstream: every received header
\* but connection and proxy-*, name and value as received, in received order
RECURSIVE FaithfulHeaders(_)
FaithfulHeaders(lines) ==
    IF lines = <<>> THEN <<>>
    ELSE LET colon_pos == find(lines[1], 58)
             name == trim(Take(lines[1], colon_pos))
             value == trim(Drop(lines[1], colon_pos + 1))
         IN  (IF /\ colon_pos >= 0
                 /\ ~starts_with(to_lowercase(name), Str_proxy)
                 /\ to_lowercase(name) # Str_connection
                THEN as_bytes(name \o <<58, 32>> \o value) \o CRLF
                ELSE <<>>) \o FaithfulHeaders(Tail(lines))

\* C22: the request written upstream carries, between its request line and
\* the one 'Connection: close' appended, every received header that is not
\* connection or proxy-*, with its name as the client cased it, its value,
\* in the order received, repeated names included.
C22_HeaderFidelity ==
    (sProto = "http" /\ hReq.method # Str_CONNECT /\ Dialled) =>
      LET url == url_parse(hReq.path)
          request_line == as_bytes(hReq.method \o <<32>> \o relative_path(url)
                                   \o <<32>> \o hReq.version) \o CRLF
          received == ReceivedHeaderLines(sIn, scan_line(sIn, 0, <<>>).next)
      IN  /\ tOut # <<>>
          /\ tOut[1].data = request_line \o FaithfulHeaders(received)
                            \o connection_close \o CRLF \o hReq.body

\* C23: for a request other than CONNECT, nothing that the client sends
\* after the request is ever written upstream, and the forwarding ends only
\* at the upstream's EOF, with all that the upstream sent written to the
\* client.
C23_OneShotForwarding ==
    (sProto = "http" /\ hReq.method # Str_CONNECT) =>
      /\ Spliced(tOut) = <<>>
      /\ (sPc = "done" /\ fEof # {}) =>
           /\ fEof = {"target"}
           /\ Spliced(sOut) = tIn

\* CONNECT, GET, POST, PUT, DELETE, HEAD, OPTIONS, PATCH
ListedMethods ==
    { <<67, 79, 78, 78, 69, 67, 84>>,
      <<71, 69, 84>>,
      <<80, 79, 83, 84>>,
      <<80, 85, 84>>,
      <<68, 69, 76, 69, 84, 69>>,
      <<72, 69, 65, 68>>,
      <<79, 80, 84, 73, 79, 78, 83>>,
      <<80, 65, 84, 67, 72>> }

\* C24: a parsed request with a method outside the list opens no target
\* connection, forwards nothing, and ends with UnsupportedMethod.
C24_MethodWhitelist ==
    (/\ sProto = "http"
     /\ hReq # no_request
     /\ hReq.method \notin ListedMethods
     /\ (has_users(sUsers) => sAuthed))
      => /\ sDials = <<>>
         /\ tOut = <<>>
         /\ sPc = "done" => sErr = "UnsupportedMethod"

\* the offset in the client's stream of the first byte after the empty line
\* that ends the headers
HeadersEnd == parse_headers(sIn, scan_line(sIn, 0, <<>>).next, {}).next

\* C25: a request that parse_request returned has, with Content-Length: N,
\* a body of exactly the N bytes after the headers, and the bytes after them
\* are not consumed; without Content-Length its body is empty. When the
\* client closes before the N-th byte, parse_request fails with
\* UnexpectedEof.
C25_BodyFraming ==
    (sProto = "http" /\ sPc # "http_parse") =>
      LET content_length == get(parse_headers(sIn, scan_line(sIn, 0, <<>>).next,
                                              {}).headers, Str_content_length)
          N == parse_number(content_length.value)
      IN  /\ hReq # no_request =>
               IF content_length.some
                 THEN /\ Len(hReq.body) = N
                      /\ hReq.body = Chunk(sIn, HeadersEnd, Len(hReq.body))
                      /\ sPc \in {"http_auth", "http_route"}
                           => sConn.pos - Len(sConn.rb) = HeadersEnd + N
                 ELSE hReq.body = <<>>
          /\ (/\ scan_line(sIn, 0, <<>>).ok
              /\ Len(split_whitespace(scan_line(sIn, 0, <<>>).line)) >= 3
              /\ parse_headers(sIn, scan_line(sIn, 0, <<>>).next, {}).ok
              /\ content_length.some
              /\ N > Len(sIn) - HeadersEnd)
               => (hReq = no_request /\ sPc = "done" /\ sErr = "UnexpectedEof")

\* steps of the handler's task that the runtime is assumed to poll whenever
\* they can be taken; DialGivenUp is the operating system's, and the two
\* steps that read an HTTP request off the wire are left without a fairness
\* assumption (fewer assumptions admit more behaviours; once the handler
\* waits in a dial none of its steps is enabled, so a behaviour that stays
\* there is fair under every choice)
HandlerStep ==
    \/ Dispatch
    \/ S5Handshake
    \/ S5Authenticate
    \/ S5Request
    \/ S5Connect
    \/ S5SendSuccess
    \/ HttpAuthenticate
    \/ HttpConnect
    \/ FwdFromClient
    \/ FwdFromTarget
    \/ FwdReadError
    \/ FwdToTargetFails
    \/ FwdToClientFails

\* C26: a handler that waits for a target which neither accepts nor refuses
\* does not wait forever: the dial ends with ConnectionTimeout and the
\* handler returns.
C26_ConnectTimeout ==
    (sPc = "dialling") ~> (sPc = "done" /\ sErr = "ConnectionTimeout")

\* configurations given to AuthManager::new: a HashMap, so at most one
\* password for a name
AuthConfigs ==
    {c \in SUBSET [user : {<<117>>, <<118>>}, pass : {<<112>>, <<120>>}] :
       \A a, b \in c : a.user = b.user => a = b}

\* the names and passwords presented: configured ones, others, a longer
\* name with a configured one as its prefix, and empty ones
TriedNames == {<<117>>, <<118>>, <<119>>, <<117, 117>>, <<>>}

TriedPasswords == {<<112>>, <<120>>, <<112, 112>>, <<>>}

\* C27: authenticate yields true exactly for a configured name presented with
\* the password configured for it, and never for a wrong password or an
\* unknown name; has_users is true iff the configuration is not empty. It
\* holds of every configuration of AuthConfigs and of the one the handled
\* connection runs under.
C27_CredentialCheck ==
    /\ \A c \in AuthConfigs :
         LET manager == AuthManager_new(c)
         IN  /\ has_users(manager) <=> c # {}
             /\ \A u \in TriedNames, p \in TriedPasswords :
                  /\ authenticate(manager, u, p) = "true"
                       <=> [user |-> u, pass |-> p] \in c
                  /\ authenticate(manager, u, p) \in {"true", "AuthenticationFailed"}
    /\ has_users(sUsers) <=> sUsers # {}
    /\ \A u \in TriedNames, p \in TriedPasswords :
         authenticate(sUsers, u, p) = "true"
           <=> [user |-> u, hash |-> hash_password(p)] \in sUsers
    /\ sAuthed => has_users(sUsers)

\* C27's case: users are configured and a SOCKS5 client that presented the
\* user "u" with a wrong password has been turned away by authenticate
C27_Witness ==
    /\ has_users(sUsers)
    /\ sProto = "socks5"
    /\ sIn \in WrongPasswordStreams
    /\ ~sAuthed
    /\ sPc = "done"
    /\ sErr = "AuthenticationFailed"

IsPrefix(p, s) == Len(p) <= Len(s) /\ Take(s, Len(p)) = p

\* C28: in every state, whatever the interleaving of the two select!
\* branches so far, the bytes the forwarder wrote to the target are a prefix
\* of the client's bytes after the fK that negotiation consumed, and the bytes
\* it wrote to the client are a prefix of the target's bytes.
C28_SpliceOrder ==
    /\ IsPrefix(Spliced(tOut), Drop(sIn, fK))
    /\ IsPrefix(Spliced(sOut), tIn)

\* C28's case: the forwarder is running, has written in both directions, and
\* still holds bytes of the client that were read before the last write
C28_Witness ==
    /\ sPc = "forward"
    /\ Spliced(tOut) # <<>>
    /\ Spliced(sOut) # <<>>
    /\ has_data(sConn.rb)

\* the place of a write to a SOCKS5 client in the session: method selection,
\* sub-negotiation reply, reply to the request, spliced bytes
PhaseRank(phase) ==
    CASE phase = "method" -> 1
      [] phase = "auth" -> 2
      [] phase = "request" -> 3
      [] phase = "splice" -> 4
      [] OTHER -> 0

\* the success reply has been written to the client
SuccessReplied ==
    \E i \in 1..Len(sOut) :
      sOut[i] = [phase |-> "request", data |-> success_reply]

\* the steps of Socks5Proxy::handle_connection after the handshake
AfterHandshake == {"s5_auth", "s5_request", "s5_connect", "dialling", "s5_reply",
                   "forward"}

\* C30: on a SOCKS5 connection the writes to the client come in the order
\* method selection, sub-negotiation reply, reply to the request, spliced
\* bytes, the first three once at most; a sub-negotiation reply is written
\* only after 05 02, and after 05 02 the request is not read before that
\* reply; the one dial is made after the method selection, to the target the
\* request gave; the success reply is written only with the target
\* connected, and nothing is written to the target, nor spliced to the
\* client, before the success reply.
C30_SessionOrder ==
    sProto = "socks5" =>
      /\ \A i, j \in 1..Len(sOut) :
           i < j => /\ PhaseRank(sOut[i].phase) <= PhaseRank(sOut[j].phase)
                    /\ PhaseRank(sOut[i].phase) = PhaseRank(sOut[j].phase)
                         => sOut[i].phase = "splice"
      /\ \A i \in 1..Len(sOut) : PhaseRank(sOut[i].phase) > 0
      /\ sPc \in AfterHandshake => (sOut # <<>> /\ sOut[1].phase = "method")
      /\ (\E i \in 1..Len(sOut) : sOut[i].phase = "auth") => MethodReply(2)
      /\ (MethodReply(2) /\ sPc \in AfterHandshake \ {"s5_auth"})
           => (sAuthed /\ Len(sOut) >= 2 /\ sOut[2].phase = "auth")
      /\ Len(sDials) <= 1
      /\ sDials # <<>> =>
           /\ sOut # <<>> /\ sOut[1].phase = "method"
           /\ sDials[1].target = sTarget
      /\ SuccessReplied => Dialled
      /\ sPc = "forward" => SuccessReplied
      /\ tOut # <<>> => SuccessReplied
      /\ Spliced(sOut) # <<>> => SuccessReplied

\* C30's case: a session that selected 0x02 has gone through all its phases
\* and is splicing in both directions
C30_Witness ==
    /\ sProto = "socks5"
    /\ MethodReply(2)
    /\ sAuthed
    /\ Dialled
    /\ SuccessReplied
    /\ Spliced(tOut) # <<>>
    /\ Spliced(sOut) # <<>>

\* C31: the connection that the dispatch hands to a handler holds every byte
\* received so far, the first byte first; so a SOCKS5 handshake never reads
\* a version other than 0x05 (InvalidVersion can only come from the request,
\* after the method selection was written), and the method of a parsed HTTP
\* request starts with the first byte of the stream.
C31_PeekNonConsuming ==
    /\ sPc \in {"s5_handshake", "http_parse"} =>
         /\ sConn.rb = Take(sIn, sConn.pos)
         /\ sConn.rb # <<>>
         /\ sConn.rb[1] = sIn[1]
    /\ (sProto = "socks5" /\ sErr = "InvalidVersion") =>
         (sOut # <<>> /\ sOut[1].phase = "method")
    /\ (sProto = "http" /\ hReq # no_request) =>
         (hReq.method # <<>> /\ hReq.method[1] = sIn[1])

\* C31's case: the dispatch read several bytes, peeked at the first, and
\* handed the connection to the HTTP handler
C31_Witness ==
    /\ sPc = "http_parse"
    /\ sConn.pos > 1
    /\ Len(sConn.rb) = sConn.pos

\* C32: a connection whose client closes without sending a byte ends, once
\* dispatched, with NoDataReceived: no handler was chosen, nothing was
\* written to the client and no target was dialled; and NoDataReceived is
\* returned for no other connection.
C32_EmptyConnection ==
    /\ (sIn = <<>> /\ sPc \notin {"off", "dispatch"}) =>
         /\ sPc = "done"
         /\ sErr = "NoDataReceived"
         /\ sProto = "none"
         /\ sOut = <<>>
         /\ sDials = <<>>
         /\ tOut = <<>>
    /\ sErr = "NoDataReceived" => sIn = <<>>

\* C32's case: the first read of an empty connection returned 0 and the task
\* has ended
C32_Witness ==
    /\ sIn = <<>>
    /\ sConn = new_conn
    /\ sPc = "done"
    /\ sErr = "NoDataReceived"

\* greetings whose VER is not 0x05, with VER and NMETHODS both sent; the
\* dispatch sends none of them to the SOCKS5 handler, the handshake is
\* applied to them directly
BadVersionGreetings ==
    { <<4, 1, 0>>, <<4, 2, 0, 2>>, <<0, 1, 0>>, <<6, 1, 2>>, <<4, 0>>,
      <<4, 1, 0, 5, 1, 0, 1>> }

\* where the request starts in the stream of a session that selected 0x00
RequestStart == 2 + sIn[2]

\* C33: a handshake on a greeting whose VER is not 0x05 fails with
\* InvalidVersion, writes nothing, and leaves the stream where the wait for
\* VER and NMETHODS left it; a request whose four leading bytes were sent and
\* whose VER is not 0x05 ends the session with InvalidVersion before any
\* reply to the request and any dial; and InvalidVersion ends no session whose
\* request has VER 0x05.
C33_VersionCheck ==
    /\ \A S \in BadVersionGreetings :
         \A first \in read(new_conn, S) :
           \A r \in handshake(first.conn, S, sUsers) :
             /\ ~r.ok
             /\ r.err = "InvalidVersion"
             /\ r.writes = <<>>
             /\ r.conn.pos \in {a.conn.pos : a \in await_bytes(first.conn, S, 2)}
             /\ r.conn.rb = Chunk(S, 2, r.conn.pos - 2)
    /\ ( /\ sProto = "socks5"
         /\ sMethod = 0
         /\ sPc # "s5_request"
         /\ Len(sIn) >= RequestStart + 4
         /\ sIn[RequestStart + 1] # 5 )
       => /\ sPc = "done"
          /\ sErr = "InvalidVersion"
          /\ sDials = <<>>
          /\ \A i \in 1..Len(sOut) : sOut[i].phase = "method"
          /\ tOut = <<>>
    /\ (sProto = "socks5" /\ sMethod = 0 /\ sErr = "InvalidVersion")
       => (Len(sIn) >= RequestStart + 4 /\ sIn[RequestStart + 1] # 5)

\* C33's case: the request of a session came with VER 0x04 and the session
\* has ended
C33_Witness ==
    /\ sProto = "socks5"
    /\ sMethod = 0
    /\ Len(sIn) >= RequestStart + 4
    /\ sIn[RequestStart + 1] = 4
    /\ sPc = "done"
    /\ sErr = "InvalidVersion"

\* the errors of the HTTP handler that stand for a protocol violation: a
\* request line of fewer than three parts, a method that is not supported, a
\* request target that url::Url::parse rejects, credentials that are not
\* base64 or not UTF-8
HttpViolations ==
    {"InvalidRequestLine", "UnsupportedMethod", "RelativeUrlWithoutBase",
     "EmptyHost", "InvalidPort", "DecodeError", "FromUtf8Error"}

\* C36: an HTTP connection that ended with one of HttpViolations was written
\* nothing and no target was dialled for it; and whatever an HTTP connection
\* that ended without a dial was written is the 407 response, once.
C36_SilentViolations ==
    /\ (sProto = "http" /\ sErr \in HttpViolations) =>
         /\ sPc = "done"
         /\ sOut = <<>>
         /\ sDials = <<>>
         /\ tOut = <<>>
    /\ (sProto = "http" /\ sPc = "done" /\ sDials = <<>> /\ sOut # <<>>) =>
         /\ sOut = <<[phase |-> "auth", data |-> response_407]>>
         /\ sErr = "ProxyAuthRequired"

\* C36's case: users are configured, the credentials of the request are not
\* base64, and the connection has ended
C36_Witness ==
    /\ sProto = "http"
    /\ has_users(sUsers)
    /\ hReq # no_request
    /\ sPc = "done"
    /\ sErr = "DecodeError"

\* C38: the step in which a read or a write of the forwarder fails ends the
\* forwarder with that error, not with Ok, and from then on nothing is
\* written to either side.
C38_ForwarderError ==
    [][ fIo' # NoIoError =>
          /\ sPc' = "done"
          /\ sErr' = "IoError"
          /\ fIo # NoIoError => (fIo' = fIo /\ sOut' = sOut /\ tOut' = tOut)
      ]_vars

\* C38's case: bytes had gone both ways when a write to the target failed
C38_Witness ==
    /\ fIo = [side |-> "target", op |-> "write"]
    /\ Spliced(sOut) # <<>>
    /\ Spliced(tOut) # <<>>
    /\ sPc = "done"

\* the forwarder is running or has returned
ForwarderRan == sPc = "forward" \/ sErr \in {"Ok", "IoError"}

\* C39: no connection ends with "Buffer data mismatch", whatever the client's
\* buffer held when the forwarder started and however the two branches
\* interleave; and every byte that a connection has taken from its socket
\* since is either written to the other side or still in read_buffer, in
\* order (a branch whose write failed excepted: its bytes are lost with the
\* error).
C39_ForwarderBookkeeping ==
    /\ sErr # "BufferDataMismatch"
    /\ ForwarderRan =>
         /\ fIo # [side |-> "target", op |-> "write"] =>
              Spliced(tOut) \o sConn.rb = Chunk(sIn, fK, sConn.pos - fK)
         /\ fIo # [side |-> "client", op |-> "write"] =>
              Spliced(sOut) \o tConn.rb = Take(tIn, tConn.pos)

\* C39's case: the forwarder started on a client buffer that held bytes,
\* read more behind them, and has returned with some still buffered
C39_Witness ==
    /\ sPc = "done"
    /\ sErr = "Ok"
    /\ has_data(sConn.rb)
    /\ Spliced(tOut) # <<>>
    /\ sConn.pos = Len(sIn)

\* what handle_connection returns once a dial was made: the errors of the
\* dial and the results of the forwarder
AfterDial == {"ConnectTargetFailed", "ConnectionRefused", "Ok", "IoError"}

\* C40: a connection dials once at most; when it has dialled, its handler
\* had gone through the whole request (a SOCKS5 session through its method
\* selection, an HTTP connection through its request head) and dialled the
\* target that the request gave; and a connection that ended with an error
\* raised before the dial has not dialled.
C40_OneOutbound ==
    /\ Len(sDials) <= 1
    /\ sDials # <<>> =>
         /\ sProto \in {"socks5", "http"}
         /\ sTarget # <<>>
         /\ sDials[1].target = sTarget
         /\ sPc \notin {"dispatch", "s5_handshake", "s5_auth", "s5_request",
                        "http_parse", "http_auth"}
         /\ sProto = "socks5" => (sOut # <<>> /\ sOut[1].phase = "method")
         /\ sProto = "http" => hReq # no_request
    /\ (sPc = "done" /\ sErr \notin AfterDial) => (sDials = <<>> /\ tOut = <<>>)
    /\ (sDials = <<>> /\ sPc = "done") => sErr \notin AfterDial

\* C40's case: an HTTP CONNECT dialled its target once, was refused, and
\* the connection has ended
C40_Witness ==
    /\ sProto = "http"
    /\ hReq # no_request
    /\ Len(sDials) = 1
    /\ sDials[1].result = "refused"
    /\ sPc = "done"

\* --------------------------------------------------------- specifications

InitBuf ==
    /\ BufInit
    /\ AccOff
    /\ SessOff

InitAcc ==
    /\ AccInit
    /\ BufOff
    /\ SessOff

Init ==
    /\ SessInit
    /\ BufOff
    /\ AccOff

SpecBuf == InitBuf /\ [][BufNext]_vars

SpecAcc == InitAcc /\ [][AccNext]_vars

Spec == Init /\ [][SessNext]_vars

\* Spec with the runtime polling the handler's task whenever it can step
SpecLive == Init /\ [][SessNext]_vars /\ WF_vars(HandlerStep)

=============================================================================
